---- MODULE Spec2Model ----
(***************************************************************************)
(* NEAR Intents swap subsystem: the protocol module near_intents.py, the   *)
(* orchestrating AIAgent (ai_agent.py) and the tool layer                   *)
(* (langchain_agent.py), as one state machine.                              *)
(*                                                                          *)
(* Numbers.  Python ints are unbounded and Python floats are IEEE-754       *)
(* doubles.  An int is modelled as a big natural: a sequence of limbs in    *)
(* radix Base, least significant first, without leading zero limbs (zero    *)
(* is << >>).  A non-negative double is modelled exactly as [m, e] with     *)
(* value m * 2^e, m a big natural below 2^MantBits after rounding to        *)
(* nearest, ties to even.  A Python str of digits is modelled as the        *)
(* sequence of its characters.                                              *)
(***************************************************************************)
EXTENDS Integers, Sequences, FiniteSets, TLC

\* ---------------------------------------------------------------- bounds
\* longest option list the solver bus answers with
MaxOptions == 2
\* longest option list select_best_option is called with on its own
MaxListLen == 4
\* longest quote string sign_quote is called with on its own
MaxQuoteLen == 6
\* number of swap / withdraw attempts in one run
MaxAttempts == 2
\* number of clock ticks in one run
MaxTicks == 1
\* records in the log of calls made on one IntentRequest
MaxCalls == 4
\* the rate limiter: the largest limit and window (in ticks of its clock) a
\* run is configured with, and how far its clock runs
MaxLimit == 2
MaxWindow == 2
MaxClock == 3
\* the security monitor: requests per run
MaxRequests == 5

\* ----------------------------------------------------------------- state
VARIABLES
    ACCOUNT,        \* langchain_agent.ACCOUNT: the agent's account id, or NoneVal
    registered,     \* chain: token -> storage registered for Account
    now,            \* clock, ms since the model's origin
    draws,          \* number of draws taken from the random generator
    published,      \* every commitment the bus received: [attempt, nonce]
    attempt,        \* number of the current attempt
    entry,          \* the entry path of the current attempt
    args,           \* its arguments
    pc,             \* its position
    account_state,  \* swap_near_to_token: the queried account state
    request,        \* swap_near_to_token, intent_swap: request (the IntentRequest)
    options,        \* intent_swap: options
    best_option,    \* intent_swap: best_option
    quote,          \* intent_swap: quote (the signed commitment)
    calls,          \* the attempt's chain calls, POSTs and steps, in order
    outcome,        \* what the caller got: returned value or raised exception
    arith           \* the interpreter's float arithmetic on the numbers of a run

\* ------------------------------------------------- unbounded ints, doubles
\* radix of a limb
Base == 100 * 100
\* bits of a double's significand (52 stored and the implicit one)
MantBits == 52 + 1


RECURSIVE BTrim(_)
BTrim(a) == IF a = << >> THEN a
            ELSE IF a[Len(a)] = 0 THEN BTrim(SubSeq(a, 1, Len(a) - 1)) ELSE a

BLimb(a, i) == IF i <= Len(a) THEN a[i] ELSE 0

Max(x, y) == IF x >= y THEN x ELSE y

RECURSIVE BAddC(_, _, _, _)
BAddC(a, b, i, c) ==
    IF i > Max(Len(a), Len(b)) THEN (IF c = 0 THEN << >> ELSE <<c>>)
    ELSE LET s == BLimb(a, i) + BLimb(b, i) + c
         IN <<s % Base>> \o BAddC(a, b, i + 1, s \div Base)
BAdd(a, b) == BAddC(a, b, 1, 0)

\* a >= b required
RECURSIVE BSubC(_, _, _, _)
BSubC(a, b, i, c) ==
    IF i > Len(a) THEN << >>
    ELSE LET s == a[i] - BLimb(b, i) - c
         IN IF s < 0 THEN <<s + Base>> \o BSubC(a, b, i + 1, 1)
                     ELSE <<s>> \o BSubC(a, b, i + 1, 0)
BSub(a, b) == BTrim(BSubC(a, b, 1, 0))

RECURSIVE BCmpAt(_, _, _)
BCmpAt(a, b, i) ==
    IF i = 0 THEN 0
    ELSE IF a[i] > b[i] THEN 1
    ELSE IF a[i] < b[i] THEN -1
    ELSE BCmpAt(a, b, i - 1)
BCmp(a, b) == IF Len(a) > Len(b) THEN 1
              ELSE IF Len(a) < Len(b) THEN -1
              ELSE BCmpAt(a, b, Len(a))

RECURSIVE BMulIntC(_, _, _, _)
BMulIntC(a, k, i, c) ==
    IF i > Len(a) THEN (IF c = 0 THEN << >> ELSE <<c>>)
    ELSE LET s == a[i] * k + c
         IN <<s % Base>> \o BMulIntC(a, k, i + 1, s \div Base)
\* 0 <= k < Base
BMulInt(a, k) == BTrim(BMulIntC(a, k, 1, 0))

RECURSIVE BMulAt(_, _, _)
BMulAt(a, b, i) ==
    IF i > Len(b) THEN << >>
    ELSE BAdd(BMulInt(a, b[i]), IF a = << >> THEN << >> ELSE <<0>> \o BMulAt(a, b, i + 1))
BMul(a, b) == BTrim(BMulAt(a, b, 1))

\* a quotient without its leading zero limbs
TrimQ(d) == [q |-> BTrim(d.q), r |-> d.r]

\* quotient and remainder by a small k, 0 < k <= Base: from the most
\* significant limb down, r the running remainder, q the limbs found so far
RECURSIVE BDivIntAt(_, _, _, _, _)
BDivIntAt(a, k, i, r, q) ==
    IF i = 0 THEN [q |-> q, r |-> r]
    ELSE BDivIntAt(a, k, i - 1, (r * Base + a[i]) % k, <<(r * Base + a[i]) \div k>> \o q)
BDivInt(a, k) == TrimQ(BDivIntAt(a, k, Len(a), 0, << >>))

BFromInt(n) == IF n = 0 THEN << >> ELSE IF n < Base THEN <<n>> ELSE BTrim(<<n % Base, (n \div Base) % Base, n \div (Base * Base)>>)

RECURSIVE BPow2(_)
BPow2(k) == IF k = 0 THEN <<1>> ELSE IF k >= 13 THEN BMulInt(BPow2(k - 13), 8192) ELSE BMulInt(BPow2(k - 1), 2)

RECURSIVE BPow10(_)
BPow10(k) == IF k = 0 THEN <<1>> ELSE IF k >= 3 THEN BMulInt(BPow10(k - 3), 1000) ELSE BMulInt(BPow10(k - 1), 10)

RECURSIVE IntBitLen(_)
IntBitLen(n) == IF n = 0 THEN 0 ELSE 1 + IntBitLen(n \div 2)
\* number of binary digits of a
BBitLen(a) == IF a = << >> THEN 0
              ELSE LET est == 13 * (Len(a) - 1) + IntBitLen(a[Len(a)])
                   IN CHOOSE n \in (est - 1)..(est + Len(a) + 1) :
                        /\ BCmp(BPow2(n), a) = 1
                        /\ (n = 0 \/ BCmp(BPow2(n - 1), a) <= 0)

\* the largest k in lo..hi with k * b <= r
RECURSIVE QuotDigit(_, _, _, _)
QuotDigit(r, b, lo, hi) ==
    IF lo = hi THEN lo
    ELSE LET mid == (lo + hi + 1) \div 2
         IN IF BCmp(BMulInt(b, mid), r) <= 0 THEN QuotDigit(r, b, mid, hi)
                                            ELSE QuotDigit(r, b, lo, mid - 1)

\* long division, most significant limb first: floor(a / b) and a mod b, b > 0.
\* r is the running remainder, q the limbs found so far; cur is r with the
\* next limb brought down and k its quotient digit.
RECURSIVE BDivAt(_, _, _, _, _)
BDivDigit(a, b, i, cur, k, q) == BDivAt(a, b, i - 1, BSub(cur, BMulInt(b, k)), <<k>> \o q)
BDivStep(a, b, i, cur, q) == BDivDigit(a, b, i, cur, QuotDigit(cur, b, 0, Base - 1), q)
BDivAt(a, b, i, r, q) ==
    IF i = 0 THEN [q |-> q, r |-> r]
    ELSE BDivStep(a, b, i, BTrim(<<a[i]>> \o r), q)
BDivMod(a, b) == TrimQ(BDivAt(a, b, Len(a), << >>, << >>))

DigitChars == <<"0", "1", "2", "3", "4", "5", "6", "7", "8", "9">>
DigitVal(c) == (CHOOSE d \in 1..10 : DigitChars[d] = c) - 1

\* str(int): the decimal digits, most significant first
BToStr(a) ==
    IF a = << >> THEN <<"0">>
    ELSE LET top == a[Len(a)]
             lead == IF top >= 1000 THEN 4 ELSE IF top >= 100 THEN 3 ELSE IF top >= 10 THEN 2 ELSE 1
             n == 4 * (Len(a) - 1) + lead
             \* digit k counted from the least significant, k = 0, 1, ...
             digit(k) == (a[(k \div 4) + 1] \div (10 ^ (k % 4))) % 10
         IN [i \in 1..n |-> DigitChars[digit(n - i) + 1]]

\* int(s) of a string of decimal digits
BFromStr(s) ==
    LET n == Len(s)
        digit(k) == IF k < n THEN DigitVal(s[n - k]) ELSE 0
    IN BTrim([j \in 1..((n + 3) \div 4) |->
                 digit(4 * j - 4) + 10 * digit(4 * j - 3)
                 + 100 * digit(4 * j - 2) + 1000 * digit(4 * j - 1)])

\* a * 2^k and floor(a / 2^k)
RECURSIVE BShl(_, _)
BShl(a, k) == IF k = 0 THEN a
              ELSE IF k >= 13 THEN BShl(BMulInt(a, 8192), k - 13)
              ELSE BMulInt(a, 2 ^ k)
RECURSIVE BShr(_, _)
BShr(a, k) == IF k = 0 THEN a
              ELSE IF k >= 13 THEN BShr(BDivInt(a, 8192).q, k - 13)
              ELSE BDivInt(a, 2 ^ k).q

\* a double in its canonical form: m odd, or zero
RECURSIVE Normalize(_, _)
Normalize(m, e) ==
    IF m = << >> THEN [m |-> << >>, e |-> 0]
    ELSE IF m[1] % 16 = 0 THEN Normalize(BDivInt(m, 16).q, e + 4)
    ELSE IF m[1] % 2 = 0 THEN Normalize(BDivInt(m, 2).q, e + 1)
    ELSE [m |-> m, e |-> e]

\* the double nearest to (n / d) * 2^e, ties to even; a double is [m, e], value m * 2^e.
\* n is scaled up by 2^up so that the quotient dm.q has at least MantBits + 1
\* bits; its lowest `drop` bits are cut off to leave q, and c compares what
\* was cut off with half a unit of q's last place.
RoundUp(q, c, dm, e, drop) ==
    Normalize(IF /\ drop > 0
                 /\ \/ c > 0
                    \/ c = 0 /\ dm.r # << >>
                    \/ c = 0 /\ dm.r = << >> /\ q # << >> /\ q[1] % 2 = 1
              THEN BAdd(q, <<1>>) ELSE q,
              e + drop)
RoundTies(q, dm, e, drop) ==
    RoundUp(q,
            BCmp(BSub(dm.q, BShl(q, drop)), IF drop = 0 THEN << >> ELSE BPow2(drop - 1)),
            dm, e, drop)
RoundDrop(dm, e, drop) == RoundTies(BShr(dm.q, drop), dm, e, drop)
RoundQuot(dm, e) == RoundDrop(dm, e, Max(0, BBitLen(dm.q) - MantBits))
RoundScaled(n, d, e, up) ==
    RoundQuot(IF d = <<1>> THEN [q |-> BShl(n, up), r |-> << >>] ELSE BDivMod(BShl(n, up), d),
              e - up)
RoundDiv(n, d, e) ==
    IF n = << >> THEN [m |-> << >>, e |-> 0]
    ELSE IF d = <<1>> /\ BCmp(n, BPow2(MantBits)) < 0 THEN Normalize(n, e)
    ELSE RoundScaled(n, d, e, Max(0, MantBits + 2 + BBitLen(d) - BBitLen(n)))

FloatOfInt(n) == RoundDiv(n, <<1>>, 0)
FMul(x, y) == RoundDiv(BMul(x.m, y.m), <<1>>, x.e + y.e)
FDiv(x, y) == RoundDiv(x.m, y.m, x.e - y.e)
\* int(x): truncation
IntOfFloat(x) == IF x.e >= 0 THEN BShl(x.m, x.e) ELSE BShr(x.m, 0 - x.e)
FCmp(x, y) == LET lo == IF x.e <= y.e THEN x.e ELSE y.e
              IN BCmp(BShl(x.m, x.e - lo), BShl(y.m, y.e - lo))

\* float(s) for a decimal string s of digits with at most one "."
RECURSIVE DropDot(_)
DropDot(s) == IF s = << >> THEN s ELSE IF Head(s) = "." THEN DropDot(Tail(s)) ELSE <<Head(s)>> \o DropDot(Tail(s))
RECURSIVE FracLen(_)
FracLen(s) == IF s = << >> THEN 0 ELSE IF Head(s) = "." THEN Len(s) - 1 ELSE FracLen(Tail(s))
FloatOfStr(s) == RoundDiv(BFromStr(DropDot(s)), BPow10(FracLen(s)), 0)




\* ------------------------------------------------------------ static data
NoneVal == "None"

\* ASSET_MAP: token symbol -> token_id, decimals (and omft where it has one)
AssetSymbols == {"USDC", "NEAR"}
\* the intents contract, and whose storage the chain keeps track of: the
\* account's own on each token's contract and that of intents.near on wrap.near
IntentsContract == "intents.near"
StorageHolders == AssetSymbols \cup {IntentsContract}
ASSET_MAP ==
    [t \in AssetSymbols |->
        IF t = "USDC"
        THEN [token_id |-> "a0b86991c6218b36c1d19d4a2e9eb0ce3606eb48.factory.bridge.near",
              omft |-> "eth-0xa0b86991c6218b36c1d19d4a2e9eb0ce3606eb48.omft.near",
              decimals |-> 6]
        ELSE [token_id |-> "wrap.near", decimals |-> 24]]

\* get_asset_id, defined for the symbols of ASSET_MAP (any other raises KeyError)
get_asset_id(token) ==
    IF token = "NEAR" THEN "near"
    ELSE IF token = "USDC"
         THEN "nep141:a0b86991c6218b36c1d19d4a2e9eb0ce3606eb48.factory.bridge.near"
         ELSE "nep141:" \o ASSET_MAP[token].token_id

\* The numbers of a run: the float amounts callers pass (0.0, 1.0, 2.5), the
\* account_state["amount"] strings the chain answers with, in yoctoNEAR
\* (10^24 - 1 and 3 * 10^24), and the amount_out strings of the bus's options.
\* The doubles 0.0, 1.0 and 2.5 (5 * 2^-1) are written as values.
Zero == [m |-> << >>, e |-> 0]
AmountArgs == {Zero, [m |-> <<1>>, e |-> 0], [m |-> <<5>>, e |-> -1]}
BalanceAmounts == {[i \in 1..24 |-> "9"], <<"3">> \o [i \in 1..24 |-> "0"]}
OptionAmounts == {<<"5">>, <<"1", "0">>}

\* to_decimals(amount, decimals) for a float amount: str(int(amount * 10**decimals)).
\* Python converts the int 10**decimals to a double, multiplies in doubles,
\* truncates and prints the int.
to_decimals(amount, decimals) ==
    BToStr(IntOfFloat(FMul(amount, FloatOfInt(BPow10(decimals)))))

\* float(account_state["amount"]) / 10**24
balance_near_of(state) ==
    FDiv(FloatOfStr(state.amount), FloatOfInt(BPow10(24)))

\* balance < amount * 10^24 in integers, with no rounding: the account's
\* balance of `balance` yoctoNEAR is below the double amount = m * 2^e of NEAR
ExactlyBelow(balance, amount) ==
    BCmp(BShl(BFromStr(balance), IF amount.e < 0 THEN 0 - amount.e ELSE 0),
         BShl(BMul(amount.m, BPow10(24)), IF amount.e > 0 THEN amount.e ELSE 0)) < 0

\* the minimum balance AIAgent.__init__ asks for, the double 0.1
MinimumBalance == FloatOfStr(<<"0", ".", "1">>)

\* The arithmetic of a run, evaluated once: float() of the options' amount_out
\* strings, balance_near of the account states, to_decimals of the amounts
\* and the comparisons between the doubles.  Init stores it in arith and the
\* steps read their conversions and comparisons there.
Floats ==
    AmountArgs \cup {FloatOfStr(o) : o \in OptionAmounts}
               \cup {balance_near_of([amount |-> a]) : a \in BalanceAmounts}
Arith ==
    [float |-> [o \in OptionAmounts |-> FloatOfStr(o)],
     balance_near |-> [a \in BalanceAmounts |-> balance_near_of([amount |-> a])],
     to_decimals |->
        [amount \in AmountArgs \cup {FloatOfStr(o) : o \in OptionAmounts},
         decimals \in {ASSET_MAP[t].decimals : t \in AssetSymbols} |->
            to_decimals(amount, decimals)],
     cmp |-> [x \in Floats, y \in Floats |-> FCmp(x, y)],
     below |-> [a \in BalanceAmounts, x \in AmountArgs |-> ExactlyBelow(a, x)],
     low |-> [a \in BalanceAmounts |->
                 FCmp(balance_near_of([amount |-> a]), MinimumBalance) < 0]]
float_of == arith.float
balance_near == arith.balance_near
to_decimals_of == arith.to_decimals
cmp_of == arith.cmp

\* --------------------------------------------------------------- objects
\* Python's None where an object (a dict) is expected
Null == [null |-> TRUE]

\* 2 minutes: the lifetime create_token_diff_quote gives a quote
DeadlineMs == 120000
\* IntentRequest's default min_deadline_ms
MinDeadlineMs == 120000

\* IntentRequest(): __init__, set_asset_in, set_asset_out, serialize.
\* In set_asset_out, amount is << >> for the omitted (None) amount.
IntentRequest == [asset_in |-> Null, asset_out |-> Null, min_deadline_ms |-> MinDeadlineMs]

set_asset_in(self, asset_name, amount) ==
    [self EXCEPT !.asset_in =
        [asset |-> get_asset_id(asset_name),
         amount |-> to_decimals_of[amount, ASSET_MAP[asset_name].decimals]]]

\* set_asset_out that assigns _asset_out only when an amount is given
set_asset_out_given_amount(self, asset_name, amount) ==
    IF amount = << >> THEN self
    ELSE [self EXCEPT !.asset_out =
             [asset |-> get_asset_id(asset_name),
              amount |-> to_decimals_of[amount[1], ASSET_MAP[asset_name].decimals]]]

set_asset_out(self, asset_name, amount) ==
    [self EXCEPT !.asset_out =
        [asset |-> get_asset_id(asset_name),
         amount |-> IF amount = << >> \/ amount[1].m = << >>
                    THEN << >>
                    ELSE to_decimals_of[amount[1], ASSET_MAP[asset_name].decimals]]]

\* serialize() that writes exact_amount_out whether or not an amount is held
serialize_with_amount_out(self) ==
    IF self.asset_in = Null \/ self.asset_out = Null THEN Null
    ELSE [defuse_asset_identifier_in |-> self.asset_in.asset,
          defuse_asset_identifier_out |-> self.asset_out.asset,
          exact_amount_in |-> self.asset_in.amount,
          min_deadline_ms |-> self.min_deadline_ms,
          exact_amount_out |-> self.asset_out.amount]

\* serialize(): Null stands for the ValueError of an incomplete request
serialize(self) ==
    IF self.asset_in = Null \/ self.asset_out = Null THEN Null
    ELSE LET message == [defuse_asset_identifier_in |-> self.asset_in.asset,
                         defuse_asset_identifier_out |-> self.asset_out.asset,
                         exact_amount_in |-> self.asset_in.amount,
                         min_deadline_ms |-> self.min_deadline_ms]
         IN IF self.asset_out.amount # << >>
            THEN message @@ [exact_amount_out |-> self.asset_out.amount]
            ELSE message

\* the JSON-RPC envelope of fetch_options and publish_intent
rpc_request(method, param) ==
    [id |-> "dontcare", jsonrpc |-> "2.0", method |-> method, params |-> <<param>>]

\* HttpPosts with one retry of the request
HttpPosts_retried(method, param, at) ==
    LET post == [op |-> "POST", method |-> method, request |-> rpc_request(method, param),
                 at |-> at]
    IN <<post, post>>

\* The POSTs one invocation of fetch_options / publish_intent sends to the
\* solver bus: requests.post is called once, with timeout=30, and not retried.
HttpPosts(method, param, at) ==
    << [op |-> "POST", method |-> method, request |-> rpc_request(method, param), at |-> at] >>

\* response_json.get("result", []) of a JSON body; a JSON null result is
\* falsy like the empty list and is modelled by it
result_of(body) == IF "result" \in DOMAIN body THEN body.result ELSE << >>

\* select_best_option: linear scan, replace only on a strictly greater
\* float(amount_out); Null on an empty list
RECURSIVE best_from(_, _, _)
best_from(option_list, i, best) ==
    IF i > Len(option_list) THEN best
    ELSE IF best = Null
            \/ cmp_of[float_of[option_list[i].amount_out], float_of[best.amount_out]] > 0
         THEN best_from(option_list, i + 1, option_list[i])
         ELSE best_from(option_list, i + 1, best)

\* select_best_option taking the first option instead of the best one
select_first_option(option_list) ==
    IF option_list = << >> THEN Null ELSE option_list[1]

\* select_best_option making up an option when the list is empty
select_or_fallback_option(option_list) ==
    IF option_list = << >>
    THEN [amount_out |-> <<"0">>, quote_hash |-> [answer |-> << >>, index |-> 0]]
    ELSE best_from(option_list, 1, Null)

select_best_option(option_list) ==
    IF option_list = << >> THEN Null ELSE best_from(option_list, 1, Null)

\* random.getrandbits(256) as base64: the value of the n-th draw of the
\* generator.  A draw is identified by its position in the generator's
\* output; two draws of 256 bits are taken to differ.
nonce_of_draw(n) == [draw |-> n]

\* json.dumps of a dict: the keys in insertion order and the values
json_dumps(keys, obj) == [keys |-> keys, obj |-> obj]

\* sign_quote signing the quote with a line feed after it
sign_quote_with_newline(account_id, quote_json) ==
    [standard |-> "raw_ed25519",
     payload |-> quote_json,
     signature |-> [prefix |-> "ed25519:", key_of |-> account_id, over |-> <<quote_json, "\n">>],
     public_key |-> [prefix |-> "ed25519:", key_of |-> account_id]]

\* sign_quote: the commitment over the serialized quote.  An ed25519
\* signature is a function of the key and the signed bytes.
sign_quote(account_id, quote_json) ==
    [standard |-> "raw_ed25519",
     payload |-> quote_json,
     signature |-> [prefix |-> "ed25519:", key_of |-> account_id, over |-> quote_json],
     public_key |-> [prefix |-> "ed25519:", key_of |-> account_id]]

\* create_token_diff_quote; amount_out is the str of an option, amount_in a
\* float.  In a dict display a repeated key keeps the last value.
create_token_diff_quote(account_id, token_in, amount_in, token_out, amount_out, nonce, time_ms) ==
    LET diff == (get_asset_id(token_out) :>
                    to_decimals_of[float_of[amount_out], ASSET_MAP[token_out].decimals])
                @@ (get_asset_id(token_in) :>
                    <<"-">> \o to_decimals_of[amount_in, ASSET_MAP[token_in].decimals])
        quote_dict == [nonce |-> nonce,
                  signer_id |-> account_id,
                  verifying_contract |-> "intents.near",
                  deadline |-> time_ms + DeadlineMs,
                  intents |-> << [intent |-> "token_diff", diff |-> diff] >>]
    IN sign_quote(account_id,
                  json_dumps(<<"nonce", "signer_id", "verifying_contract", "deadline", "intents">>,
                             quote_dict))

\* The deadline "2025-12-31T11:59:59.000Z" that intent_withdraw writes, on the
\* model's clock: the clock's origin is taken one quote lifetime before it.
WithdrawDeadline == DeadlineMs

\* intent_withdraw's quote, signed.  Null stands for the KeyError of a token
\* without an "omft" entry when network is not "near".
withdraw_quote(account_id, destination_address, token, amount, network, nonce) ==
    LET intent == [intent |-> "ft_withdraw",
                   token |-> ASSET_MAP[token].token_id,
                   receiver_id |-> destination_address,
                   amount |-> to_decimals_of[amount, ASSET_MAP[token].decimals]]
        quote_dict == [signer_id |-> account_id,
                       nonce |-> nonce,
                       verifying_contract |-> "intents.testnet",
                       deadline |-> WithdrawDeadline,
                       intents |-> <<intent>>]
        keys == <<"signer_id", "nonce", "verifying_contract", "deadline", "intents">>
    IN IF network = "near"
       THEN sign_quote(account_id, json_dumps(keys, quote_dict))
       ELSE IF "omft" \notin DOMAIN ASSET_MAP[token]
       THEN Null
       ELSE sign_quote(account_id, json_dumps(keys,
                [quote_dict EXCEPT !.intents =
                    << [intent |-> "ft_withdraw",
                        token |-> ASSET_MAP[token].omft,
                        receiver_id |-> ASSET_MAP[token].omft,
                        amount |-> intent.amount,
                        memo |-> "WITHDRAW_TO:" \o destination_address] >>]))

\* PublishIntent(signed_data=..., quote_hashes=[...])
PublishIntent(signed_data, quote_hashes) ==
    [signed_data |-> signed_data, quote_hashes |-> quote_hashes]

\* -------------------------------------------- the chain and the solver bus
\* What an attempt does is recorded in order: a chain call (failed tells
\* whether the chain runtime raised), the invocation of fetch_options or
\* publish_intent, a POST to the solver bus, and the steps of the attempt.

\* what str() gives of the exception of a storage_deposit that the contract
\* refused because another caller had registered the account since the view
AlreadyRegistered == "RuntimeError: already registered"
ChainErrors == {"ChainError", AlreadyRegistered}

\* register_token_storage catching what the chain calls raise
register_token_storage_swallowing(token, reg, chain) ==
    IF token \notin DOMAIN ASSET_MAP
    THEN [exc |-> "KeyError", calls |-> << >>, registered |-> reg]
    ELSE LET view == [op |-> "view_function", contract |-> ASSET_MAP[token].token_id,
                      method |-> "storage_balance_of", failed |-> chain = "view_raises"]
             deposit == [op |-> "function_call", contract |-> ASSET_MAP[token].token_id,
                         method |-> "storage_deposit",
                         failed |-> chain \in {"deposit_raises", "already_registered"}]
         IN IF chain = "view_raises" \/ reg[token]
            THEN [exc |-> NoneVal, calls |-> <<view>>, registered |-> reg]
            ELSE [exc |-> NoneVal, calls |-> <<view, deposit>>,
                  registered |-> IF chain = "deposit_raises" THEN reg
                                 ELSE [reg EXCEPT ![token] = TRUE]]

\* register_token_storage that takes a symbol ASSET_MAP does not hold as
\* registered already
register_token_storage_defaulting(token, reg, chain) ==
    IF token \notin DOMAIN ASSET_MAP
    THEN [exc |-> NoneVal, calls |-> << >>, registered |-> reg]
    ELSE LET view == [op |-> "view_function", contract |-> ASSET_MAP[token].token_id,
                      method |-> "storage_balance_of", failed |-> chain = "view_raises"]
             deposit == [op |-> "function_call", contract |-> ASSET_MAP[token].token_id,
                         method |-> "storage_deposit",
                         failed |-> chain \in {"deposit_raises", "already_registered"}]
         IN IF chain = "view_raises"
            THEN [exc |-> "ChainError", calls |-> <<view>>, registered |-> reg]
            ELSE IF reg[token]
            THEN [exc |-> NoneVal, calls |-> <<view>>, registered |-> reg]
            ELSE IF chain = "deposit_raises"
            THEN [exc |-> "ChainError", calls |-> <<view, deposit>>, registered |-> reg]
            ELSE IF chain = "already_registered"
            THEN [exc |-> AlreadyRegistered, calls |-> <<view, deposit>>,
                  registered |-> [reg EXCEPT ![token] = TRUE]]
            ELSE [exc |-> NoneVal, calls |-> <<view, deposit>>,
                  registered |-> [reg EXCEPT ![token] = TRUE]]

\* register_token_storage that pays the intents contract for the storage too
register_token_storage_paying_intents(token, reg, chain) ==
    IF token \notin DOMAIN ASSET_MAP
    THEN [exc |-> "KeyError", calls |-> << >>, registered |-> reg]
    ELSE LET view == [op |-> "view_function", contract |-> ASSET_MAP[token].token_id,
                      method |-> "storage_balance_of", failed |-> chain = "view_raises"]
             deposit == [op |-> "function_call", contract |-> ASSET_MAP[token].token_id,
                         method |-> "storage_deposit",
                         failed |-> chain \in {"deposit_raises", "already_registered"}]
             transfer == [op |-> "function_call", contract |-> ASSET_MAP[token].token_id,
                          method |-> "ft_transfer_call", failed |-> FALSE]
         IN IF chain = "view_raises"
            THEN [exc |-> "ChainError", calls |-> <<view>>, registered |-> reg]
            ELSE IF reg[token]
            THEN [exc |-> NoneVal, calls |-> <<view>>, registered |-> reg]
            ELSE IF chain = "deposit_raises"
            THEN [exc |-> "ChainError", calls |-> <<view, deposit>>, registered |-> reg]
            ELSE IF chain = "already_registered"
            THEN [exc |-> AlreadyRegistered, calls |-> <<view, deposit>>,
                  registered |-> [reg EXCEPT ![token] = TRUE]]
            ELSE [exc |-> NoneVal, calls |-> <<view, deposit, transfer>>,
                  registered |-> [reg EXCEPT ![token] = TRUE]]

\* NEARAccount.register_token_storage(token) for the account itself, against
\* the chain's storage registrations `reg`.  chain is what the chain runtime
\* does with the calls: "ok", "view_raises", "deposit_raises" or
\* "already_registered" (storage_deposit raises and says so).  Returns the
\* exception raised (NoneVal if none), the chain calls made and the chain's
\* registrations afterwards.
register_token_storage(token, reg, chain) ==
    IF token \notin DOMAIN ASSET_MAP
    THEN [exc |-> "KeyError", calls |-> << >>, registered |-> reg]
    ELSE LET view == [op |-> "view_function", contract |-> ASSET_MAP[token].token_id,
                      method |-> "storage_balance_of", failed |-> chain = "view_raises"]
             deposit == [op |-> "function_call", contract |-> ASSET_MAP[token].token_id,
                         method |-> "storage_deposit",
                         failed |-> chain \in {"deposit_raises", "already_registered"}]
         IN IF chain = "view_raises"
            THEN [exc |-> "ChainError", calls |-> <<view>>, registered |-> reg]
            ELSE IF reg[token]
            THEN [exc |-> NoneVal, calls |-> <<view>>, registered |-> reg]
            ELSE IF chain = "deposit_raises"
            THEN [exc |-> "ChainError", calls |-> <<view, deposit>>, registered |-> reg]
            ELSE IF chain = "already_registered"
            THEN [exc |-> AlreadyRegistered, calls |-> <<view, deposit>>,
                  registered |-> [reg EXCEPT ![token] = TRUE]]
            ELSE [exc |-> NoneVal, calls |-> <<view, deposit>>,
                  registered |-> [reg EXCEPT ![token] = TRUE]]

\* register_token_storage(token, other_account) for the storage of
\* other_account on the token's contract: deposit_near registers intents.near
\* on wrap.near.  reg[other_account] tells whether that storage is registered.
register_token_storage_for(token, other_account, reg, chain) ==
    IF token \notin DOMAIN ASSET_MAP
    THEN [exc |-> "KeyError", calls |-> << >>, registered |-> reg]
    ELSE LET view == [op |-> "view_function", contract |-> ASSET_MAP[token].token_id,
                      method |-> "storage_balance_of", account_id |-> other_account,
                      failed |-> chain = "view_raises"]
             deposit == [op |-> "function_call", contract |-> ASSET_MAP[token].token_id,
                         method |-> "storage_deposit", account_id |-> other_account,
                         failed |-> chain \in {"deposit_raises", "already_registered"}]
         IN IF chain = "view_raises"
            THEN [exc |-> "ChainError", calls |-> <<view>>, registered |-> reg]
            ELSE IF reg[other_account]
            THEN [exc |-> NoneVal, calls |-> <<view>>, registered |-> reg]
            ELSE IF chain = "deposit_raises"
            THEN [exc |-> "ChainError", calls |-> <<view, deposit>>, registered |-> reg]
            ELSE IF chain = "already_registered"
            THEN [exc |-> AlreadyRegistered, calls |-> <<view, deposit>>,
                  registered |-> [reg EXCEPT ![other_account] = TRUE]]
            ELSE [exc |-> NoneVal, calls |-> <<view, deposit>>,
                  registered |-> [reg EXCEPT ![other_account] = TRUE]]

ChainBehaviours == {"ok", "view_raises", "deposit_raises", "already_registered"}

\* fetch_options(request): the POST it sends, then the exception raised
\* (NoneVal if none) and the list returned, for the bus's answer resp
fetch_options(req, resp, at) ==
    LET message == serialize(req)
        invoked == [op |-> "fetch_options"]
    IN IF message = Null
       THEN [exc |-> "ValueError: Both input and output assets must be specified",
             calls |-> <<invoked>>, options |-> << >>]
       ELSE LET made == <<invoked>> \o HttpPosts("quote", message, at)
            IN IF resp.kind = "network_error"
               THEN [exc |-> "RequestException", calls |-> made, options |-> << >>]
               ELSE IF resp.kind = "not_json"
               THEN [exc |-> "JSONDecodeError", calls |-> made, options |-> << >>]
               ELSE [exc |-> NoneVal, calls |-> made, options |-> result_of(resp.body)]

\* publish_intent that takes a POST without an answer as answered with nothing
publish_intent_ignoring_timeout(signed_intent, resp, at) ==
    LET made == <<[op |-> "publish_intent"]>> \o HttpPosts("publish_intent", signed_intent, at)
    IN IF resp.kind = "network_error"
       THEN [exc |-> NoneVal, calls |-> made, response |-> Null]
       ELSE IF resp.kind = "not_json"
       THEN [exc |-> "JSONDecodeError", calls |-> made, response |-> Null]
       ELSE [exc |-> NoneVal, calls |-> made, response |-> resp.body]

\* publish_intent(signed_intent): the POST it sends, then the exception
\* raised (NoneVal if none) and the JSON body returned as it is
publish_intent(signed_intent, resp, at) ==
    LET made == <<[op |-> "publish_intent"]>> \o HttpPosts("publish_intent", signed_intent, at)
    IN IF resp.kind = "network_error"
       THEN [exc |-> "RequestException", calls |-> made, response |-> Null]
       ELSE IF resp.kind = "not_json"
       THEN [exc |-> "JSONDecodeError", calls |-> made, response |-> Null]
       ELSE [exc |-> NoneVal, calls |-> made, response |-> resp.body]

\* ------------------------------------------------------------ input sets
\* the account every attempt signs with
Account == "alice.near"
\* the address a withdrawal goes to
Destination == "bob.near"
\* a symbol that ASSET_MAP does not hold
UnknownToken == "DOGE"

EntryPaths == {"swap_tokens", "swap_near_to_token", "handle_intent_execution",
               "intent_swap", "intent_withdraw"}
SourceTokens == {"NEAR", "USDC"}
TargetTokens == {"USDC", UnknownToken}

\* option lists of a bus answer; tag tells the answers of two requests apart
OptionLists(tag) ==
    UNION {{[i \in 1..n |-> [amount_out |-> f[i], quote_hash |-> [answer |-> tag, index |-> i]]]
            : f \in [1..n -> OptionAmounts]} : n \in 0..MaxOptions}

BusError == [error |-> [message |-> "rejected"]]
BusAck == [result |-> [status |-> "OK"]]
BusFailures == {[kind |-> "network_error"], [kind |-> "not_json"]}
QuoteAnswers(tag) ==
    BusFailures \cup {[kind |-> "json", body |-> BusError]}
    \cup {[kind |-> "json", body |-> [result |-> l]] : l \in OptionLists(tag)}
PublishAnswers == BusFailures \cup {[kind |-> "json", body |-> b] : b \in {BusError, BusAck}}

\* provider.query(view_account): raises, answers nothing, or the state
StateAnswers == {[kind |-> "raise"], [kind |-> "none"]}
                \cup {[kind |-> "state", state |-> [amount |-> a]] : a \in BalanceAmounts}

\* ------------------------------------------------------- state functions
vars == <<ACCOUNT, registered, now, draws, published, attempt, entry, args, pc,
          account_state, request, options, best_option, quote, calls, outcome, arith>>

world == <<arith, ACCOUNT, registered, now, draws, published>>
locals == <<account_state, request, options, best_option, quote>>

Init ==
    /\ ACCOUNT \in {NoneVal, Account}
    /\ registered = [t \in StorageHolders |-> FALSE]
    /\ now = 0
    /\ draws = 0
    /\ published = << >>
    /\ attempt = 0
    /\ entry = NoneVal
    /\ args = Null
    /\ pc = "idle"
    /\ account_state = Null
    /\ request = Null
    /\ options = << >>
    /\ best_option = Null
    /\ quote = Null
    /\ calls = << >>
    /\ outcome = Null
    /\ arith = Arith

\* --------------------------------------------------------------- actions
\* What the caller of the entry path gets when the attempt returns value
\* (kind "return") or raises value (kind "raise").  swap_tokens wraps both
\* in a dict; swap_near_to_token and handle_intent_execution log and re-raise.
Outcome(e, kind, value) ==
    IF e = "swap_tokens"
    THEN [kind |-> "return",
          value |-> IF kind = "return" THEN [status |-> "success", result |-> value]
                                      ELSE [status |-> "error", message |-> value]]
    ELSE IF e = "deposit_near"
    THEN [kind |-> "return",
          value |-> IF kind = "return"
                    THEN [status |-> "success",
                          message |-> <<"Deposited", args.amount_in, "NEAR">>]
                    ELSE [status |-> "error", message |-> value]]
    ELSE [kind |-> kind, value |-> value]

\* the attempt raises exc after the calls `made`
Raise(exc, made) ==
    /\ pc' = "done"
    /\ outcome' = Outcome(entry, "raise", exc)
    /\ calls' = calls \o made \o <<[op |-> "raise", exc |-> exc]>>

\* the attempt returns value after the calls `made`
Returns(value, made) ==
    /\ pc' = "done"
    /\ outcome' = Outcome(entry, "return", value)
    /\ calls' = calls \o made

\* the attempt goes on at `next` after the calls `made`
Goto(next, made) ==
    /\ pc' = next
    /\ calls' = calls \o made
    /\ UNCHANGED outcome

FirstStep(e) ==
    CASE e = "swap_tokens" -> "tool_register"
      [] e = "swap_near_to_token" -> "agent_check"
      [] e = "intent_withdraw" -> "withdraw"
      [] OTHER -> "swap_register_in"

\* the account id of the account object the attempt works with
account_obj == IF entry = "swap_tokens" THEN ACCOUNT ELSE Account

\* A caller starts an attempt: swap_tokens(target_token, amount),
\* swap_near_to_token(target_token, amount_in), handle_intent_execution("swap",
\* account, token_in, amount_in, token_out), intent_swap(account, token_in,
\* amount_in, token_out) or intent_withdraw(account, destination, token, amount,
\* network).
Start ==
    /\ pc = "idle"
    /\ attempt < MaxAttempts
    /\ \E e \in EntryPaths, tin \in SourceTokens, tout \in TargetTokens,
          a \in AmountArgs, net \in {"near", "eth"} :
          /\ e \in {"swap_tokens", "swap_near_to_token"} => tin = "NEAR"
          /\ e = "intent_withdraw" => tout = "USDC"
          /\ e # "intent_withdraw" => net = "near"
          /\ entry' = e
          /\ args' = [token_in |-> tin, amount_in |-> a, token_out |-> tout, network |-> net]
          /\ pc' = FirstStep(e)
    /\ attempt' = attempt + 1
    /\ UNCHANGED <<world, locals, calls, outcome>>

\* The entry path has returned or raised: the caller has the outcome and the
\* attempt's frame is gone.
Return ==
    /\ pc = "done"
    /\ pc' = "idle"
    /\ entry' = NoneVal
    /\ args' = Null
    /\ account_state' = Null
    /\ request' = Null
    /\ options' = << >>
    /\ best_option' = Null
    /\ quote' = Null
    /\ calls' = << >>
    /\ outcome' = Null
    /\ UNCHANGED <<world, attempt>>

\* swap_tokens, up to the call of swap_near_to_token:
\* register_token_storage(ACCOUNT.account, target_token)
ToolRegister ==
    /\ pc = "tool_register"
    /\ IF ACCOUNT = NoneVal
       THEN /\ Raise("AttributeError", << >>)
            /\ UNCHANGED registered
       ELSE \E chain \in ChainBehaviours :
               LET r == register_token_storage(args.token_out, registered, chain)
               IN /\ registered' = r.registered
                  /\ IF r.exc # NoneVal
                     THEN Raise(r.exc, r.calls)
                     ELSE Goto("agent_check", r.calls)
    /\ UNCHANGED <<arith, ACCOUNT, now, draws, published, attempt, entry, args>>
    /\ UNCHANGED locals

\* swap_near_to_token, up to the balance check
AgentCheck ==
    /\ pc = "agent_check"
    /\ IF cmp_of[args.amount_in, Zero] <= 0
       THEN /\ Raise("ValueError: Swap amount must be greater than 0", << >>)
            /\ UNCHANGED account_state
       ELSE IF args.token_out \notin DOMAIN ASSET_MAP
       THEN /\ Raise("ValueError: Unsupported target token", << >>)
            /\ UNCHANGED account_state
       ELSE \E answer \in StateAnswers :
               LET query == [op |-> "view_account", failed |-> answer.kind = "raise"]
               IN IF answer.kind = "raise"
                  THEN /\ Raise("ChainError", <<query>>)
                       /\ UNCHANGED account_state
                  ELSE IF answer.kind = "none"
                  THEN /\ Raise("ValueError: Account not found or not accessible", <<query>>)
                       /\ UNCHANGED account_state
                  ELSE LET insufficient ==
                               cmp_of[balance_near[answer.state.amount], args.amount_in] < 0
                           checked == [op |-> "balance_check", ok |-> ~insufficient]
                       IN /\ account_state' = answer.state
                          /\ IF insufficient
                             THEN Raise("ValueError: Insufficient balance", <<query, checked>>)
                             ELSE Goto("agent_fetch", <<query, checked>>)
    /\ UNCHANGED world
    /\ UNCHANGED <<attempt, entry, args, request, options, best_option, quote>>

\* what fetch_options returned, and what select_best_option returned
Fetched(option_list) == [op |-> "options", empty |-> option_list = << >>]
Selected(best) == [op |-> "select_best_option", found |-> best # Null]

\* swap_near_to_token: build the request, fetch_options, check and select.
\* Its options and best_option are logged and not used again: intent_swap
\* takes the target token and the amount only, so the attempt keeps neither.
AgentFetch ==
    /\ pc = "agent_fetch"
    /\ request' = set_asset_out(set_asset_in(IntentRequest, "NEAR", args.amount_in),
                                 args.token_out, << >>)
    /\ \E answer \in QuoteAnswers(<<attempt, Len(calls)>>) :
          LET r == fetch_options(request', answer, now)
          IN IF r.exc # NoneVal
             THEN Raise(r.exc, r.calls)
             ELSE IF r.options = << >>
             THEN Raise("ValueError: No swap options available",
                        r.calls \o <<Fetched(r.options)>>)
             ELSE Goto("swap_register_in",
                       r.calls \o <<Fetched(r.options), Selected(select_best_option(r.options))>>)
    /\ UNCHANGED world
    /\ UNCHANGED <<attempt, entry, args, account_state, options, best_option, quote>>

\* intent_swap: register_token_storage(account_obj, token_in), then token_out
SwapRegister(at, token, next) ==
    /\ pc = at
    /\ \E chain \in ChainBehaviours :
          LET r == register_token_storage(token, registered, chain)
          IN /\ registered' = r.registered
             /\ IF r.exc # NoneVal
                THEN Raise(r.exc, r.calls)
                ELSE Goto(next, r.calls)
    /\ UNCHANGED <<arith, ACCOUNT, now, draws, published, attempt, entry, args>>
    /\ UNCHANGED locals

SwapRegisterIn == SwapRegister("swap_register_in", args.token_in, "swap_register_out")
SwapRegisterOut == SwapRegister("swap_register_out", args.token_out, "swap_fetch")

\* SwapFetch without the check of best_option
SwapFetch_unchecked ==
    /\ pc = "swap_fetch"
    /\ request' = set_asset_out(set_asset_in(IntentRequest, args.token_in, args.amount_in),
                                 args.token_out, << >>)
    /\ \E answer \in QuoteAnswers(<<attempt, Len(calls)>>) :
          LET r == fetch_options(request', answer, now)
              best == select_best_option(r.options)
              made == r.calls \o <<Fetched(r.options), Selected(best)>>
          IN IF r.exc # NoneVal
             THEN /\ Raise(r.exc, r.calls)
                  /\ UNCHANGED <<options, best_option>>
             ELSE /\ options' = r.options
                  /\ best_option' = best
                  /\ Goto("swap_sign", made)
    /\ UNCHANGED world
    /\ UNCHANGED <<attempt, entry, args, account_state, quote>>

\* intent_swap: build the request, fetch_options, select_best_option
SwapFetch ==
    /\ pc = "swap_fetch"
    /\ request' = set_asset_out(set_asset_in(IntentRequest, args.token_in, args.amount_in),
                                 args.token_out, << >>)
    /\ \E answer \in QuoteAnswers(<<attempt, Len(calls)>>) :
          LET r == fetch_options(request', answer, now)
              best == select_best_option(r.options)
              made == r.calls \o <<Fetched(r.options), Selected(best)>>
          IN IF r.exc # NoneVal
             THEN /\ Raise(r.exc, r.calls)
                  /\ UNCHANGED <<options, best_option>>
             ELSE /\ options' = r.options
                  /\ best_option' = best
                  /\ IF best = Null
                     THEN Raise("ValueError: No valid swap options available from solver bus",
                                made)
                     ELSE Goto("swap_sign", made)
    /\ UNCHANGED world
    /\ UNCHANGED <<attempt, entry, args, account_state, quote>>

\* intent_swap: create_token_diff_quote with the best option's amount_out
SwapSign ==
    /\ pc = "swap_sign"
    /\ draws' = draws + 1
    /\ quote' = create_token_diff_quote(account_obj, args.token_in, args.amount_in,
                                        args.token_out, best_option.amount_out,
                                        nonce_of_draw(draws + 1), now)
    /\ Goto("swap_publish",
            <<[op |-> "sign_quote", nonce |-> nonce_of_draw(draws + 1), at |-> now]>>)
    /\ UNCHANGED <<arith, ACCOUNT, registered, now, published, attempt, entry, args>>
    /\ UNCHANGED <<account_state, request, options, best_option>>

\* intent_swap: publish_intent of the signed intent; the response is returned
SwapPublish ==
    /\ pc = "swap_publish"
    /\ \E answer \in PublishAnswers :
          LET signed_intent == PublishIntent(quote, <<best_option.quote_hash>>)
              r == publish_intent(signed_intent, answer, now)
          IN /\ published' = Append(published,
                                    [attempt |-> attempt, nonce |-> quote.payload.obj.nonce])
             /\ IF r.exc # NoneVal
                THEN Raise(r.exc, r.calls)
                ELSE Returns(r.response, r.calls)
    /\ UNCHANGED <<arith, ACCOUNT, registered, now, draws, attempt, entry, args>>
    /\ UNCHANGED locals

\* intent_withdraw(account_obj, destination_address, token, amount, network)
IntentWithdraw ==
    /\ pc = "withdraw"
    /\ draws' = draws + 1
    /\ LET signed == withdraw_quote(account_obj, Destination, args.token_in, args.amount_in,
                                    args.network, nonce_of_draw(draws + 1))
           signing == <<[op |-> "sign_quote", nonce |-> nonce_of_draw(draws + 1), at |-> now]>>
       IN IF signed = Null
          THEN /\ Raise("KeyError", << >>)
               /\ UNCHANGED <<quote, published>>
          ELSE \E answer \in PublishAnswers :
                  LET r == publish_intent(PublishIntent(signed, << >>), answer, now)
                  IN /\ quote' = signed
                     /\ published' = Append(published,
                                            [attempt |-> attempt, nonce |-> signed.payload.obj.nonce])
                     /\ IF r.exc # NoneVal
                        THEN Raise(r.exc, signing \o r.calls)
                        ELSE Returns(r.response, signing \o r.calls)
    /\ UNCHANGED <<arith, ACCOUNT, registered, now, attempt, entry, args>>
    /\ UNCHANGED <<account_state, request, options, best_option>>

\* The clock advances by one quote lifetime.  A step other than signing and
\* publishing does not read the clock, so time that passes during the earlier
\* steps of an attempt is time that passed before the attempt.
Tick ==
    /\ pc \in {"idle", "swap_publish"}
    /\ now < MaxTicks * DeadlineMs
    /\ now' = now + DeadlineMs
    /\ UNCHANGED <<arith, ACCOUNT, registered, draws, published, attempt, entry, args, pc, calls, outcome>>
    /\ UNCHANGED locals

Next ==
    \/ Start
    \/ Return
    \/ ToolRegister
    \/ AgentCheck
    \/ AgentFetch
    \/ SwapRegisterIn
    \/ SwapRegisterOut
    \/ SwapFetch
    \/ SwapSign
    \/ SwapPublish
    \/ IntentWithdraw
    \/ Tick

Spec == Init /\ [][Next]_vars

\* ------------------------------------------------------------ observations
\* positions in the current attempt's record
QuotePosts == {i \in DOMAIN calls : calls[i].op = "POST" /\ calls[i].method = "quote"}
PublishPosts == {i \in DOMAIN calls : calls[i].op = "POST" /\ calls[i].method = "publish_intent"}
Posts == {i \in DOMAIN calls : calls[i].op = "POST"}
Signs == {i \in DOMAIN calls : calls[i].op = "sign_quote"}
StorageCalls == {i \in DOMAIN calls : calls[i].op \in {"view_function", "function_call"}}
FoundSelections == {i \in DOMAIN calls : calls[i].op = "select_best_option" /\ calls[i].found}
NoOption == {i \in DOMAIN calls : \/ calls[i].op = "options" /\ calls[i].empty
                                  \/ calls[i].op = "select_best_option" /\ ~calls[i].found}
PassedBalanceChecks == {i \in DOMAIN calls : calls[i].op = "balance_check" /\ calls[i].ok}
Raises == {i \in DOMAIN calls : calls[i].op = "raise"}
Last(S) == CHOOSE i \in S : \A j \in S : j <= i

\* the entry paths that start a swap, and those that go through the agent
SwapEntries == EntryPaths \ {"intent_withdraw"}
AgentEntries == {"swap_tokens", "swap_near_to_token"}
InSwap == entry \in SwapEntries

\* the attempt is over and the caller was told it failed
Failed ==
    /\ pc = "done"
    /\ \/ outcome.kind = "raise"
       \/ entry \in {"swap_tokens", "deposit_near"} /\ outcome.value.status = "error"

\* the attempt is over and the caller was told it succeeded; what it was handed
Succeeded == pc = "done" /\ ~Failed
Response == IF entry = "swap_tokens" THEN outcome.value.result ELSE outcome.value

\* the signed intent of the publish POST at p, and the quote it carries
IntentAt(p) == calls[p].request.params[1]
QuoteAt(p) == IntentAt(p).signed_data.payload.obj

\* the amount_out strings of the options compared as floats: -1, 0 or 1
AmountOutCmp ==
    [a \in OptionAmounts, b \in OptionAmounts |-> FCmp(FloatOfStr(a), FloatOfStr(b))]

\* option i of l has the greatest float(amount_out) and is the first to have it
IsBest(l, i) ==
    /\ \A j \in 1..Len(l) : AmountOutCmp[l[j].amount_out, l[i].amount_out] <= 0
    /\ \A j \in 1..(i - 1) : AmountOutCmp[l[j].amount_out, l[i].amount_out] < 0

\* ------------------------------------------------------------------ claims
\* C1: in a swap attempt that publishes, the amount_out of the signed
\* token_diff and the one quote_hash sent both come from the best option of
\* the list that intent_swap fetched in this attempt with its last quote
\* request.
C1_PublishedFromBestOption ==
    InSwap =>
        \A p \in PublishPosts :
            /\ \A i \in 1..Len(options) :
                  options[i].quote_hash.answer = <<attempt, Last(QuotePosts) - 2>>
            /\ \E i \in 1..Len(options) :
                  /\ IsBest(options, i)
                  /\ IntentAt(p).quote_hashes = <<options[i].quote_hash>>
                  /\ QuoteAt(p).intents[1].diff[get_asset_id(args.token_out)]
                        = to_decimals_of[float_of[options[i].amount_out],
                                         ASSET_MAP[args.token_out].decimals]

\* a swap through swap_near_to_token (two fetches) published the second of two
\* options, the greater one
C1_Witness ==
    /\ entry = "swap_near_to_token"
    /\ PublishPosts # {}
    /\ Cardinality(QuotePosts) = 2
    /\ Len(options) = 2
    /\ options[1].amount_out = <<"5">>
    /\ options[2].amount_out = <<"1", "0">>
    /\ IntentAt(Last(PublishPosts)).quote_hashes = <<options[2].quote_hash>>

\* C2: when fetch_options returns an empty list or select_best_option returns
\* none, the swap attempt has failed, nothing was signed or published in it
\* and no quote exists.
C2_NoOptionNoSignNoPublish ==
    (InSwap /\ NoOption # {}) =>
        /\ Failed
        /\ Signs = {}
        /\ PublishPosts = {}
        /\ quote = Null
        /\ \A i \in 1..Len(published) : published[i].attempt # attempt

\* intent_swap got an empty list after swap_near_to_token had got options
C2_Witness ==
    /\ entry = "swap_near_to_token"
    /\ Cardinality(QuotePosts) = 2
    /\ NoOption # {}
    /\ Failed

\* C3: when swap_near_to_token is called with an amount greater than the
\* balance queried (the yoctoNEAR of the account state against the amount in
\* NEAR, compared exactly), the attempt has failed with the
\* insufficient-balance error and no request went to the solver bus.
C3_InsufficientBalanceNoRequest ==
    (entry \in AgentEntries /\ account_state # Null
        /\ arith.below[account_state.amount, args.amount_in]) =>
        /\ Failed
        /\ (IF entry = "swap_tokens" THEN outcome.value.message ELSE outcome.value)
              = "ValueError: Insufficient balance"
        /\ Posts = {}

\* C4: a swap whose publish_intent response carries a bus-level error is
\* reported as failed; success is reported only for a response without error.
C4_BusErrorIsFailure ==
    (InSwap /\ PublishPosts # {} /\ Succeeded) => "error" \notin DOMAIN Response

\* C5: a quote handed to publish_intent has a deadline later than the time
\* of publishing, in intent_swap and in intent_withdraw.
C5_NoStaleQuotePublished ==
    \A p \in PublishPosts : QuoteAt(p).deadline > calls[p].at

\* C6: each invocation of fetch_options and of publish_intent sends exactly
\* one HTTP request, an attempt publishes at most once, the nonce published
\* is the one drawn for that commitment in the attempt, and no two published
\* commitments share an attempt or a nonce.
C6_PublishedOnceFreshNonce ==
    /\ \A i \in DOMAIN calls :
          calls[i].op \in {"fetch_options", "publish_intent"} =>
              /\ i + 1 \in Posts
              /\ calls[i + 1].method = (IF calls[i].op = "fetch_options" THEN "quote"
                                        ELSE "publish_intent")
              /\ i + 2 \notin Posts
    /\ \A i \in Posts : i > 1 /\ calls[i - 1].op \in {"fetch_options", "publish_intent"}
    /\ Cardinality(PublishPosts) <= 1
    /\ \A p \in PublishPosts :
          /\ Cardinality(Signs) = 1
          /\ \A g \in Signs : g < p /\ QuoteAt(p).nonce = calls[g].nonce
          /\ published # << >>
          /\ published[Len(published)] = [attempt |-> attempt, nonce |-> QuoteAt(p).nonce]
    /\ \A i, j \in 1..Len(published) :
          i < j => /\ published[i].attempt # published[j].attempt
                   /\ published[i].nonce # published[j].nonce

\* two successive attempts have each published a commitment
C6_Witness ==
    /\ Len(published) = 2
    /\ PublishPosts # {}
    /\ pc = "done"

\* C7: in a swap attempt every quote request comes after the
\* storage_balance_of queries for both the input and the output asset.
C7_StorageBeforeQuote ==
    InSwap =>
        \A q \in QuotePosts :
            \A t \in {args.token_in, args.token_out} :
                \E i \in StorageCalls :
                    /\ i < q
                    /\ calls[i].method = "storage_balance_of"
                    /\ calls[i].contract = ASSET_MAP[t].token_id

\* C8: a storage_balance_of query or storage_deposit call that fails ends the
\* swap attempt in failure with nothing after it, and a swap publishes only
\* when the account has registered storage for both assets.
C8_StorageFailureIsFatal ==
    InSwap =>
        /\ \A i \in StorageCalls :
              calls[i].failed =>
                  /\ Failed
                  /\ i + 1 = Len(calls)
                  /\ calls[i + 1].op = "raise"
        /\ PublishPosts # {} => registered[args.token_in] /\ registered[args.token_out]

\* a storage_deposit failed in intent_swap after swap_near_to_token had
\* fetched options
C8_Witness ==
    /\ entry = "swap_near_to_token"
    /\ QuotePosts # {}
    /\ \E i \in StorageCalls : calls[i].method = "storage_deposit" /\ calls[i].failed
    /\ Failed

\* C9: in a swap attempt publish_intent comes only after a signing, a signing
\* only after the last quote request and a select_best_option that returned
\* an option, the attempt is at the signing step only right after such a
\* selection, and once the attempt has raised nothing more happens in it.
C9_StepOrder ==
    InSwap =>
        /\ \A p \in PublishPosts : \E g \in Signs : g < p
        /\ \A g \in Signs :
              /\ \E c \in FoundSelections : c < g
              /\ \A q \in QuotePosts : q < g
        /\ \A c \in FoundSelections : \E q \in QuotePosts : q < c
        /\ pc = "swap_sign" => Last(DOMAIN calls) \in FoundSelections
        /\ pc = "swap_publish" => Last(DOMAIN calls) \in Signs
        /\ \A r \in Raises : r = Len(calls) /\ pc = "done"

\* a swap went through fetch, selection, signing and publish and the bus
\* acknowledged it
C9_Witness ==
    /\ entry = "intent_swap"
    /\ Succeeded
    /\ PublishPosts # {}
    /\ "result" \in DOMAIN Response

\* C10: on every entry path of a swap no storage-registration call, quote
\* request, signing or publish happens before the balance check has passed.
C10_BalanceCheckFirst ==
    InSwap =>
        \A i \in StorageCalls \cup Posts \cup Signs :
            \E b \in PassedBalanceChecks : b < i

\* the invocations of fetch_options and the selections in the current attempt
FetchCalls == {i \in DOMAIN calls : calls[i].op = "fetch_options"}
Selections == {i \in DOMAIN calls : calls[i].op = "select_best_option"}

\* C11: a swap attempt invokes fetch_options at most once, sends at most one
\* quote request and selects at most once; an attempt that published did each
\* exactly once, so the list it selected from is the list it signed from.
C11_OneRequestOneFetch ==
    InSwap =>
        /\ Cardinality(FetchCalls) <= 1
        /\ Cardinality(QuotePosts) <= 1
        /\ Cardinality(Selections) <= 1
        /\ PublishPosts # {} =>
              /\ Cardinality(QuotePosts) = 1
              /\ Cardinality(Selections) = 1

\* ------------------------------------------- select_best_option on its own
\* A caller hands select_best_option lists of up to MaxListLen options whose
\* amount_out strings are 5, 10, 25, 25.0, 9007199254740992 (2^53) and
\* 9007199254740993: as strings "5" is the greatest of the first four and "25"
\* differs from "25.0", as numbers 25 and 25.0 are equal; the last two are
\* amounts in base units that differ by one unit and are the same double.
SelectAmounts ==
    {<<"5">>, <<"1", "0">>, <<"2", "5">>, <<"2", "5", ".", "0">>,
     <<"9", "0", "0", "7", "1", "9", "9", "2", "5", "4", "7", "4", "0", "9", "9", "2">>,
     <<"9", "0", "0", "7", "1", "9", "9", "2", "5", "4", "7", "4", "0", "9", "9", "3">>}
SelectLists ==
    UNION {{[i \in 1..n |-> [amount_out |-> f[i], quote_hash |-> [answer |-> << >>, index |-> i]]]
            : f \in [1..n -> SelectAmounts]} : n \in 0..MaxListLen}
SelectFloats == {FloatOfStr(o) : o \in SelectAmounts}
SelectArith ==
    [Arith EXCEPT !.float = [o \in SelectAmounts |-> FloatOfStr(o)],
                  !.cmp = [x \in SelectFloats, y \in SelectFloats |-> FCmp(x, y)]]

\* no attempt is running and none has run; the arithmetic is table
Loaded(table) ==
    /\ ACCOUNT = Account
    /\ registered = [t \in StorageHolders |-> FALSE]
    /\ now = 0
    /\ draws = 0
    /\ published = << >>
    /\ attempt = 0
    /\ entry = NoneVal
    /\ args = Null
    /\ pc = "idle"
    /\ account_state = Null
    /\ request = Null
    /\ options = << >>
    /\ best_option = Null
    /\ quote = Null
    /\ calls = << >>
    /\ outcome = Null
    /\ arith = table

SelectInit == Loaded(SelectArith)

\* one call in a run: best_option = select_best_option(options)
CallSelectBestOption ==
    /\ attempt = 0
    /\ attempt' = 1
    /\ \E l \in SelectLists :
          /\ options' = l
          /\ best_option' = select_best_option(l)
    /\ UNCHANGED <<world, entry, args, pc, account_state, request, quote, calls, outcome>>

SelectNext == CallSelectBestOption

SelectSpec == SelectInit /\ [][SelectNext]_vars

\* the decimal strings a and b compared as numbers, exactly: a = na / 10^fa
\* and b = nb / 10^fb are compared as na * 10^fb and nb * 10^fa
DecimalCmp(a, b) ==
    BCmp(BMul(BFromStr(DropDot(a)), BPow10(FracLen(b))),
         BMul(BFromStr(DropDot(b)), BPow10(FracLen(a))))
SelectCmp == [a \in SelectAmounts, b \in SelectAmounts |-> DecimalCmp(a, b)]

\* C12: select_best_option returns none for the empty list, and for a
\* non-empty list the element of lowest index whose amount_out, as a number,
\* is the greatest of the list.
C12_FirstMaximum ==
    /\ options = << >> => best_option = Null
    /\ options # << >> =>
          \E i \in 1..Len(options) :
             /\ best_option = options[i]
             /\ \A j \in 1..Len(options) :
                   SelectCmp[options[j].amount_out, options[i].amount_out] <= 0
             /\ \A j \in 1..(i - 1) :
                   SelectCmp[options[j].amount_out, options[i].amount_out] < 0

\* ------------------------------------------------------ the signed quotes
\* the identifier the solver bus knows a token by: "near" for the native
\* token, "nep141:" and the token id for a fungible token
AssetIdentifier(token) ==
    IF token = "NEAR" THEN "near" ELSE "nep141:" \o ASSET_MAP[token].token_id
\* s is the str of a non-negative integer
IsIntegerString(s) == s # << >> /\ \A i \in 1..Len(s) : \E d \in 1..10 : DigitChars[d] = s[i]

\* C13: the quote a swap attempt signed holds one intent, a token_diff whose
\* diff has two entries: the identifier of token_in with "-" and the base
\* units of amount_in, and the identifier of token_out with the base units of
\* the selected option's amount_out.
C13_TokenDiffTwoEntries ==
    (InSwap /\ quote # Null) =>
        LET intents == quote.payload.obj.intents
            diff == intents[1].diff
            id_in == AssetIdentifier(args.token_in)
            id_out == AssetIdentifier(args.token_out)
        IN /\ Len(intents) = 1
           /\ intents[1].intent = "token_diff"
           /\ DOMAIN intents[1] = {"intent", "diff"}
           /\ Cardinality(DOMAIN diff) = 2
           /\ DOMAIN diff = {id_in, id_out}
           /\ diff[id_in] = <<"-">> \o to_decimals_of[args.amount_in, ASSET_MAP[args.token_in].decimals]
           /\ diff[id_out] = to_decimals_of[float_of[best_option.amount_out],
                                           ASSET_MAP[args.token_out].decimals]
           /\ IsIntegerString(Tail(diff[id_in]))
           /\ IsIntegerString(diff[id_out])

\* the order in which a signed quote is to list its fields
QuoteFieldOrder == <<"nonce", "signer_id", "verifying_contract", "deadline", "intents">>

\* C14: every quote that was serialized and signed, by a swap or by a
\* withdrawal, lists its fields in the order nonce, signer_id,
\* verifying_contract, deadline, intents.
C14_QuoteFieldOrder ==
    quote # Null =>
        /\ quote.payload.keys = QuoteFieldOrder
        /\ quote.signature.over.keys = QuoteFieldOrder

\* C15: every quote that was signed and published has the signing account's
\* id as signer_id, "intents.near" as verifying_contract and the time of its
\* creation plus DeadlineMs as deadline.
C15_QuoteHeader ==
    \A p \in PublishPosts :
        /\ QuoteAt(p).signer_id = IntentAt(p).signed_data.public_key.key_of
        /\ QuoteAt(p).signer_id = account_obj
        /\ QuoteAt(p).verifying_contract = "intents.near"
        /\ QuoteAt(p).deadline = calls[Last(Signs)].at + DeadlineMs

\* --------------------------------------------------- sign_quote on its own
\* A caller hands sign_quote an account and a quote string: any string of up
\* to MaxQuoteLen characters.
QuoteChars == {"0", "1"}
QuoteStrings == UNION {[1..n -> QuoteChars] : n \in 0..MaxQuoteLen}
Signers == {Account, Destination}

SignInit == Loaded(Arith)

\* one call in a run: quote = sign_quote(account_obj, quote string)
CallSignQuote ==
    /\ attempt = 0
    /\ attempt' = 1
    /\ \E a \in Signers, q \in QuoteStrings :
          /\ args' = [account_id |-> a, quote |-> q]
          /\ quote' = sign_quote(a, q)
    /\ UNCHANGED <<world, entry, pc, account_state, request, options, best_option,
                   calls, outcome>>

SignNext == CallSignQuote

SignSpec == SignInit /\ [][SignNext]_vars

\* ed25519 verification: the signature verifies over message with public_key
\* when it was made over exactly these bytes with the key of public_key
Verifies(public_key, message, signature) ==
    /\ signature.key_of = public_key.key_of
    /\ signature.over = message

\* C16: sign_quote(account, q) returns a commitment with standard
\* "raw_ed25519", payload q, signature and public_key with the prefix
\* "ed25519:"; the signature verifies over the payload with the public key,
\* and does not once one character of the payload is changed.
C16_CommitmentVerifies ==
    attempt = 1 =>
        /\ DOMAIN quote = {"standard", "payload", "signature", "public_key"}
        /\ quote.standard = "raw_ed25519"
        /\ quote.payload = args.quote
        /\ quote.signature.prefix = "ed25519:"
        /\ quote.public_key.prefix = "ed25519:"
        /\ quote.public_key.key_of = args.account_id
        /\ Verifies(quote.public_key, quote.payload, quote.signature)
        /\ \A i \in 1..Len(quote.payload) :
              \A c \in QuoteChars \ {quote.payload[i]} :
                 ~Verifies(quote.public_key, [quote.payload EXCEPT ![i] = c], quote.signature)

\* a quote string of three characters or more was signed
C16_Witness ==
    /\ attempt = 1
    /\ Len(args.quote) >= 3
    /\ quote.payload = args.quote

\* ------------------------------------------------------------ base units
\* floor(x * 10^decimals) as a decimal string, computed in integers: x is the
\* double m * 2^e, a decimal amount that the double holds exactly
ExactBaseUnits(x, decimals) ==
    BToStr(IF x.e >= 0 THEN BShl(BMul(x.m, BPow10(decimals)), x.e)
                       ELSE BShr(BMul(x.m, BPow10(decimals)), 0 - x.e))
ExactUnits ==
    [x \in AmountArgs, decimals \in {ASSET_MAP[t].decimals : t \in AssetSymbols} |->
        ExactBaseUnits(x, decimals)]

\* C17: to_decimals(amount, decimals) is the decimal string of the exact
\* integer floor(amount * 10^decimals): the exact_amount_in of every quote
\* request is the exact number of base units of the amount_in of the attempt.
C17_ExactBaseUnits ==
    InSwap =>
        \A p \in QuotePosts :
            IntentAt(p).exact_amount_in
                = ExactUnits[args.amount_in, ASSET_MAP[args.token_in].decimals]

\* ------------------------------------------------ IntentRequest on its own
\* near_intents exports IntentRequest: a caller constructs one and calls
\* set_asset_in, set_asset_out, serialize and fetch_options in any order, with
\* any symbol and amount.  calls logs each call with its arguments, the
\* exception it raised (NoneVal if none) and, for serialize, the object
\* returned.  The amounts are float literals, written as decimal strings.
RequestAssets == AssetSymbols \cup {UnknownToken}
RequestAmountStrings == {<<"1", ".", "5">>, <<"0", ".", "0", "0", "0", "0", "0", "0", "1">>,
                         <<"0", ".", "0">>}
\* amounts of set_asset_in: 1.5 and 0.0000001
AmountsIn(asset_name) ==
    IF asset_name = "USDC"
    THEN {<<"1", ".", "5">>, <<"0", ".", "0", "0", "0", "0", "0", "0", "1">>}
    ELSE {<<"1", ".", "5">>}
\* amounts of set_asset_out: omitted, 0.0 and 1.5
AmountsOut(asset_name) ==
    IF asset_name = "USDC"
    THEN {<< >>, << <<"0", ".", "0">> >>, << <<"1", ".", "5">> >>}
    ELSE {<< >>}
RequestFloats == {FloatOfStr(s) : s \in RequestAmountStrings}
RequestArith ==
    [Arith EXCEPT !.float = [s \in RequestAmountStrings |-> FloatOfStr(s)],
                  !.to_decimals =
                      [amount \in RequestFloats,
                       decimals \in {ASSET_MAP[t].decimals : t \in AssetSymbols} |->
                          to_decimals(amount, decimals)]]

RequestInit == Loaded(RequestArith)

\* request = IntentRequest()
CallIntentRequest ==
    /\ request = Null
    /\ request' = IntentRequest
    /\ UNCHANGED <<world, attempt, entry, args, pc, account_state, options, best_option,
                   quote, calls, outcome>>

\* request.set_asset_in(asset_name, amount): get_asset_id raises KeyError for
\* a symbol ASSET_MAP does not hold, before _asset_in is assigned
CallSetAssetIn ==
    /\ request # Null
    /\ Len(calls) < MaxCalls
    /\ \E asset_name \in RequestAssets :
          \E amount \in AmountsIn(asset_name) :
             LET call == [op |-> "set_asset_in", asset_name |-> asset_name, amount |-> amount]
             IN IF asset_name \in AssetSymbols
                THEN /\ request' = set_asset_in(request, asset_name, float_of[amount])
                     /\ calls' = Append(calls, call @@ [exc |-> NoneVal])
                ELSE /\ request' = request
                     /\ calls' = Append(calls, call @@ [exc |-> "KeyError"])
    /\ UNCHANGED <<world, attempt, entry, args, pc, account_state, options, best_option,
                   quote, outcome>>

\* request.set_asset_out(asset_name, amount=None)
CallSetAssetOut ==
    /\ request # Null
    /\ Len(calls) < MaxCalls
    /\ \E asset_name \in RequestAssets :
          \E amount \in AmountsOut(asset_name) :
             LET call == [op |-> "set_asset_out", asset_name |-> asset_name, amount |-> amount]
             IN IF asset_name \in AssetSymbols
                THEN /\ request' = set_asset_out(request, asset_name,
                                                 IF amount = << >> THEN << >>
                                                 ELSE <<float_of[amount[1]]>>)
                     /\ calls' = Append(calls, call @@ [exc |-> NoneVal])
                ELSE /\ request' = request
                     /\ calls' = Append(calls, call @@ [exc |-> "KeyError"])
    /\ UNCHANGED <<world, attempt, entry, args, pc, account_state, options, best_option,
                   quote, outcome>>

\* request.serialize()
CallSerialize ==
    /\ request # Null
    /\ Len(calls) < MaxCalls
    /\ LET message == serialize(request)
       IN calls' = Append(calls,
                          [op |-> "serialize",
                           exc |-> IF message = Null
                                   THEN "ValueError: Both input and output assets must be specified"
                                   ELSE NoneVal,
                           message |-> message])
    /\ UNCHANGED <<world, attempt, entry, args, pc, account_state, request, options,
                   best_option, quote, outcome>>

\* fetch_options(request), for an answer of the bus; "returned" closes the
\* records of the call
RequestAnswers == {[kind |-> "network_error"], [kind |-> "json", body |-> [result |-> << >>]]}
CallFetchOptions ==
    /\ request # Null
    /\ Len(calls) < MaxCalls
    /\ \E resp \in RequestAnswers :
          LET r == fetch_options(request, resp, now)
          IN /\ calls' = calls \o r.calls \o <<[op |-> "returned", exc |-> r.exc]>>
             /\ options' = r.options
    /\ UNCHANGED <<world, attempt, entry, args, pc, account_state, request, best_option,
                   quote, outcome>>

RequestNext ==
    \/ CallIntentRequest
    \/ CallSetAssetIn
    \/ CallSetAssetOut
    \/ CallSerialize
    \/ CallFetchOptions

RequestSpec == RequestInit /\ [][RequestNext]_vars

\* the serialize() calls of the log, and the setter calls before record i
\* that returned
Serialized == {i \in DOMAIN calls : calls[i].op = "serialize"}
Returned(i) == calls[i].exc = NoneVal
SetBefore(setter, i) == {j \in 1..(i - 1) : calls[j].op = setter /\ Returned(j)}
GivenBefore(setter, i) == calls[Last(SetBefore(setter, i))]
RequestKeys == {"defuse_asset_identifier_in", "defuse_asset_identifier_out",
                "exact_amount_in", "min_deadline_ms"}
IsPositiveIntegerString(s) == IsIntegerString(s) /\ \E k \in 1..Len(s) : s[k] # "0"

\* C18 as the spec states it: for every known asset pair and every amount_in
\* above 0, serialize() returns an object with exactly the keys
\* defuse_asset_identifier_in, defuse_asset_identifier_out, exact_amount_in
\* and min_deadline_ms (120000), plus exact_amount_out exactly when an amount
\* was given to set_asset_out; exact_amount_in is a positive integer string.
C18_SerializedShape ==
    \A i \in Serialized :
        Returned(i) =>
            /\ SetBefore("set_asset_in", i) # {}
            /\ SetBefore("set_asset_out", i) # {}
            /\ LET message == calls[i].message
                   given_in == GivenBefore("set_asset_in", i)
                   given_out == GivenBefore("set_asset_out", i)
               IN /\ DOMAIN message
                        = RequestKeys \cup (IF given_out.amount # << >>
                                            THEN {"exact_amount_out"} ELSE {})
                  /\ message.defuse_asset_identifier_in = AssetIdentifier(given_in.asset_name)
                  /\ message.defuse_asset_identifier_out = AssetIdentifier(given_out.asset_name)
                  /\ message.min_deadline_ms = 120000
                  /\ IsPositiveIntegerString(message.exact_amount_in)

\* C18, amended: the same shape, with exact_amount_out exactly when an amount
\* other than 0 was given to set_asset_out, and exact_amount_in an integer
\* string that is positive when amount_in is at least one base unit of the
\* asset.
C18_SerializedShapeAmended ==
    \A i \in Serialized :
        Returned(i) =>
            /\ SetBefore("set_asset_in", i) # {}
            /\ SetBefore("set_asset_out", i) # {}
            /\ LET message == calls[i].message
                   given_in == GivenBefore("set_asset_in", i)
                   given_out == GivenBefore("set_asset_out", i)
                   nonzero_out == /\ given_out.amount # << >>
                                  /\ float_of[given_out.amount[1]] # Zero
               IN /\ DOMAIN message
                        = RequestKeys \cup (IF nonzero_out THEN {"exact_amount_out"} ELSE {})
                  /\ message.defuse_asset_identifier_in = AssetIdentifier(given_in.asset_name)
                  /\ message.defuse_asset_identifier_out = AssetIdentifier(given_out.asset_name)
                  /\ message.min_deadline_ms = 120000
                  /\ IsIntegerString(message.exact_amount_in)
                  /\ nonzero_out => IsIntegerString(message.exact_amount_out)
                  /\ ExactBaseUnits(float_of[given_in.amount],
                                    ASSET_MAP[given_in.asset_name].decimals) # <<"0">>
                        => IsPositiveIntegerString(message.exact_amount_in)

\* serialize() returned a request of 1.5 USDC in and 1.5 USDC out
C18_Witness ==
    \E i \in Serialized :
        /\ Returned(i)
        /\ GivenBefore("set_asset_out", i).amount = << <<"1", ".", "5">> >>
        /\ calls[i].message.exact_amount_in = <<"1", "5", "0", "0", "0", "0", "0">>
        /\ calls[i].message.exact_amount_out = <<"1", "5", "0", "0", "0", "0", "0">>

\* the request is incomplete at record i: a setter has not returned before it
IncompleteError == "ValueError: Both input and output assets must be specified"
IncompleteBefore(i) ==
    SetBefore("set_asset_in", i) = {} \/ SetBefore("set_asset_out", i) = {}

\* C19: after any sequence of set_asset_in / set_asset_out calls, serialize()
\* fails, with the error of an incomplete request, if and only if one of the
\* two setters has never been called (to its return); when it fails inside
\* fetch_options, fetch_options raises that error and no POST is made, and
\* when it does not fail the POST follows.
C19_IncompleteRequest ==
    /\ \A i \in Serialized :
          /\ ~Returned(i) <=> IncompleteBefore(i)
          /\ ~Returned(i) => calls[i].exc = IncompleteError /\ calls[i].message = Null
    /\ \A i \in FetchCalls :
          IF IncompleteBefore(i)
          THEN calls[i + 1] = [op |-> "returned", exc |-> IncompleteError]
          ELSE /\ calls[i + 1].op = "POST"
               /\ calls[i + 1].request.params = <<serialize(request)>>
               /\ calls[i + 2].op = "returned"

\* fetch_options was called on a request with only its input asset set
C19_Witness ==
    \E i \in FetchCalls :
        /\ SetBefore("set_asset_in", i) # {}
        /\ SetBefore("set_asset_out", i) = {}
        /\ calls[i + 1].op = "returned"
        /\ calls[i + 1].exc = IncompleteError

\* C20: an IntentRequest is immutable after serialize(): once serialize() has
\* returned, no later set_asset_in or set_asset_out call changes the request,
\* so a serialize() now, and every serialize() logged later, returns the
\* content the first one returned.
C20_ImmutableAfterSerialize ==
    \A i \in Serialized :
        Returned(i) =>
            /\ serialize(request) = calls[i].message
            /\ \A j \in Serialized : j > i => calls[j].message = calls[i].message

\* -------------------------------------------------- failures of the exchange
\* C21: fetch_options never raises on a failed exchange with the solver bus:
\* after every quote POST, whatever the answer (no connection, a body that is
\* not JSON, an error body), fetch_options returns a list, so the record that
\* follows the POST is the list returned and never an exception raised.
C21_FetchOptionsNeverRaises ==
    \A p \in QuotePosts : p < Len(calls) => calls[p + 1].op = "options"

\* ------------------------------------------- the helpers called on their own
\* near_intents exports get_asset_id, IntentRequest and register_token_storage:
\* a caller calls one of them with any symbol, as an attempt of one step, next
\* to the attempts of Next.  args.token is the symbol the call resolves.
DirectCalls == {"get_asset_id", "set_asset_in", "set_asset_out", "register_token_storage"}

\* get_asset_id(token)
CallGetAssetId ==
    /\ pc = "idle"
    /\ attempt < MaxAttempts
    /\ attempt' = attempt + 1
    /\ entry' = "get_asset_id"
    /\ \E token \in RequestAssets :
          /\ args' = [token |-> token]
          /\ IF token \in DOMAIN ASSET_MAP
             THEN Returns(get_asset_id(token), << >>)
             ELSE Raise("KeyError", << >>)
    /\ UNCHANGED <<world, locals>>

\* IntentRequest().set_asset_in(token, amount)
CallSetAssetInOnce ==
    /\ pc = "idle"
    /\ attempt < MaxAttempts
    /\ attempt' = attempt + 1
    /\ entry' = "set_asset_in"
    /\ \E token \in RequestAssets, amount \in AmountArgs :
          /\ args' = [token |-> token, amount |-> amount]
          /\ IF token \in DOMAIN ASSET_MAP
             THEN /\ request' = set_asset_in(IntentRequest, token, amount)
                  /\ Returns(request', << >>)
             ELSE /\ request' = IntentRequest
                  /\ Raise("KeyError", << >>)
    /\ UNCHANGED <<world, account_state, options, best_option, quote>>

\* IntentRequest().set_asset_out(token): the amount omitted, as the program
\* calls it
CallSetAssetOutOnce ==
    /\ pc = "idle"
    /\ attempt < MaxAttempts
    /\ attempt' = attempt + 1
    /\ entry' = "set_asset_out"
    /\ \E token \in RequestAssets :
          /\ args' = [token |-> token]
          /\ IF token \in DOMAIN ASSET_MAP
             THEN /\ request' = set_asset_out(IntentRequest, token, << >>)
                  /\ Returns(request', << >>)
             ELSE /\ request' = IntentRequest
                  /\ Raise("KeyError", << >>)
    /\ UNCHANGED <<world, account_state, options, best_option, quote>>

\* register_token_storage(account, token): returns the balance viewed
CallRegisterTokenStorage ==
    /\ pc = "idle"
    /\ attempt < MaxAttempts
    /\ attempt' = attempt + 1
    /\ entry' = "register_token_storage"
    /\ \E token \in RequestAssets, chain \in ChainBehaviours :
          LET r == register_token_storage(token, registered, chain)
          IN /\ args' = [token |-> token]
             /\ registered' = r.registered
             /\ IF r.exc # NoneVal
                THEN Raise(r.exc, r.calls)
                ELSE Returns([balance |-> token \in DOMAIN ASSET_MAP /\ registered[token]], r.calls)
    /\ UNCHANGED <<arith, ACCOUNT, now, draws, published>>
    /\ UNCHANGED locals

ResolveNext ==
    \/ Next
    \/ CallGetAssetId
    \/ CallSetAssetInOnce
    \/ CallSetAssetOutOnce
    \/ CallRegisterTokenStorage

ResolveSpec == Init /\ [][ResolveNext]_vars

\* the symbol the attempt resolves is not in ASSET_MAP
UnknownAssetErrors == {"KeyError", "ValueError: Unsupported target token"}
ResolvesUnknown ==
    \/ entry \in DirectCalls /\ args.token \notin DOMAIN ASSET_MAP
    \/ entry \in SwapEntries /\ args.token_out \notin DOMAIN ASSET_MAP
\* the reason the caller was given for the failure
FailureReason ==
    IF entry \in {"swap_tokens", "deposit_near"} THEN outcome.value.message ELSE outcome.value
\* a step before the one that resolves the symbol failed: the tool has no
\* account, the amount is not positive, or the chain failed on token_in
FailedBeforeResolving ==
    \/ entry = "swap_tokens" /\ ACCOUNT = NoneVal /\ FailureReason = "AttributeError"
    \/ /\ entry \in AgentEntries
       /\ cmp_of[args.amount_in, Zero] <= 0
       /\ FailureReason = "ValueError: Swap amount must be greater than 0"
    \/ /\ entry \in {"intent_swap", "handle_intent_execution"}
       /\ StorageCalls # {}
       /\ calls[Last(StorageCalls)].failed
       /\ calls[Last(StorageCalls)].contract = ASSET_MAP[args.token_in].token_id
       /\ FailureReason \in ChainErrors

\* C22: an operation that resolves a symbol ASSET_MAP does not hold
\* (get_asset_id, set_asset_in, set_asset_out, register_token_storage,
\* swap_tokens, swap_near_to_token, intent_swap) fails with KeyError or with
\* the ValueError of the unsupported token unless an earlier step failed; it
\* returns no identifier or request built from a default, makes no chain call
\* for the symbol, signs nothing and sends no quote or publish request.
C22_UnknownAssetFails ==
    ResolvesUnknown =>
        /\ Posts = {}
        /\ Signs = {}
        /\ \A i \in StorageCalls : calls[i].contract = ASSET_MAP[args.token_in].token_id
        /\ pc \in {"tool_register", "agent_check", "swap_register_in", "swap_register_out",
                   "done"}
        /\ pc = "done" =>
              /\ Failed
              /\ FailureReason \in UnknownAssetErrors \/ FailedBeforeResolving
              /\ entry \in {"set_asset_in", "set_asset_out"} => request = IntentRequest

\* intent_swap failed with KeyError on the unknown token_out after it had
\* registered the storage of token_in
C22_Witness ==
    /\ entry = "intent_swap"
    /\ args.token_out = UnknownToken
    /\ pc = "done"
    /\ StorageCalls # {}
    /\ outcome = [kind |-> "raise", value |-> "KeyError"]

\* ------------------------------------------------------------ the deposit
\* The deposit_near tool of langchain_agent and AIAgent.deposit_near, which
\* the tool calls, as attempts next to those of Next.  args.amount_in is the
\* amount of NEAR to deposit.
DepositEntries == {"deposit_near", "AIAgent.deposit_near"}
NotInitialized == "ACCOUNT is not initialized. Call initialize_agent() first."
\* what the chain runtime does with a function call: it runs or it raises
CallBehaviours == {"ok", "raises"}

\* a caller starts a deposit: deposit_near(amount) or agent.deposit_near(amount)
StartDeposit ==
    /\ pc = "idle"
    /\ attempt < MaxAttempts
    /\ attempt' = attempt + 1
    /\ \E e \in DepositEntries, a \in AmountArgs :
          /\ entry' = e
          /\ args' = [amount_in |-> a]
          /\ pc' = IF e = "deposit_near" THEN "tool_deposit" ELSE "deposit_check"
    /\ UNCHANGED <<world, locals, calls, outcome>>

\* the deposit_near tool, up to the call of ACCOUNT.deposit_near: without an
\* agent it returns the error dict itself
ToolDeposit ==
    /\ pc = "tool_deposit"
    /\ IF ACCOUNT = NoneVal
       THEN /\ pc' = "done"
            /\ outcome' = [kind |-> "return",
                           value |-> [status |-> "error", message |-> NotInitialized]]
       ELSE /\ pc' = "deposit_check"
            /\ UNCHANGED outcome
    /\ UNCHANGED <<world, locals, attempt, entry, args, calls>>

\* AIAgent.deposit_near, up to the balance check
DepositCheck ==
    /\ pc = "deposit_check"
    /\ IF cmp_of[args.amount_in, Zero] <= 0
       THEN /\ Raise("ValueError: Deposit amount must be greater than 0", << >>)
            /\ UNCHANGED account_state
       ELSE \E answer \in StateAnswers :
               LET query == [op |-> "view_account", failed |-> answer.kind = "raise"]
               IN IF answer.kind = "raise"
                  THEN /\ Raise("ChainError", <<query>>)
                       /\ UNCHANGED account_state
                  ELSE IF answer.kind = "none"
                  THEN /\ Raise("ValueError: Account not found or not accessible", <<query>>)
                       /\ UNCHANGED account_state
                  ELSE LET insufficient ==
                               cmp_of[balance_near[answer.state.amount], args.amount_in] < 0
                           checked == [op |-> "balance_check", ok |-> ~insufficient]
                       IN /\ account_state' = answer.state
                          /\ IF insufficient
                             THEN Raise("ValueError: Insufficient balance", <<query, checked>>)
                             ELSE Goto("deposit_register", <<query, checked>>)
    /\ UNCHANGED world
    /\ UNCHANGED <<attempt, entry, args, request, options, best_option, quote>>

\* AIAgent.deposit_near: register_token_storage(self.account, "NEAR",
\* other_account="intents.near"); a ValueError, RuntimeError or OSError that
\* says "already registered" is logged and the deposit goes on
DepositRegister ==
    /\ pc = "deposit_register"
    /\ \E chain \in ChainBehaviours :
          LET r == register_token_storage_for("NEAR", IntentsContract, registered, chain)
          IN /\ registered' = r.registered
             /\ IF r.exc \in {NoneVal, AlreadyRegistered}
                THEN Goto("deposit_wrap", r.calls)
                ELSE Raise(r.exc, r.calls)
    /\ UNCHANGED <<arith, ACCOUNT, now, draws, published, attempt, entry, args>>
    /\ UNCHANGED locals

\* intent_deposit(account, "NEAR", amount): near_deposit on wrap.near with
\* int(amount_raw) attached
DepositWrap ==
    /\ pc = "deposit_wrap"
    /\ \E chain \in CallBehaviours :
          LET amount_raw == to_decimals_of[args.amount_in, ASSET_MAP["NEAR"].decimals]
              wrap == [op |-> "function_call", contract |-> "wrap.near",
                       method |-> "near_deposit", deposit |-> amount_raw,
                       failed |-> chain = "raises"]
          IN IF chain = "raises"
             THEN Raise("ChainError", <<wrap>>)
             ELSE Goto("deposit_transfer", <<wrap>>)
    /\ UNCHANGED <<world, locals, attempt, entry, args>>

\* intent_deposit: ft_transfer_call on wrap.near to intents.near of amount_raw,
\* with 1 yoctoNEAR attached; deposit_near returns None
DepositTransfer ==
    /\ pc = "deposit_transfer"
    /\ \E chain \in CallBehaviours :
          LET amount_raw == to_decimals_of[args.amount_in, ASSET_MAP["NEAR"].decimals]
              transfer == [op |-> "function_call", contract |-> "wrap.near",
                           method |-> "ft_transfer_call", receiver_id |-> IntentsContract,
                           amount |-> amount_raw, deposit |-> <<"1">>,
                           failed |-> chain = "raises"]
          IN IF chain = "raises"
             THEN Raise("ChainError", <<transfer>>)
             ELSE Returns(NoneVal, <<transfer>>)
    /\ UNCHANGED <<world, locals, attempt, entry, args>>

DepositNext ==
    \/ Next
    \/ CallRegisterTokenStorage
    \/ StartDeposit
    \/ ToolDeposit
    \/ DepositCheck
    \/ DepositRegister
    \/ DepositWrap
    \/ DepositTransfer

DepositSpec == Init /\ [][DepositNext]_vars


\* the records a step appends to calls, as positions of calls'
Appended == IF Len(calls') >= Len(calls) THEN (Len(calls) + 1)..Len(calls') ELSE {}
\* whose storage a storage_balance_of or storage_deposit record is about
HolderOf(rec) ==
    IF "account_id" \in DOMAIN rec THEN rec.account_id
    ELSE CHOOSE t \in AssetSymbols : ASSET_MAP[t].token_id = rec.contract
IsStorageCall(rec, method) ==
    rec.op \in {"view_function", "function_call"} /\ rec.method = method

\* a step submits storage_deposit right after a storage_balance_of view of the
\* same storage that returned no balance, and only then
CheckBeforeAct ==
    \A i \in Appended :
        /\ IsStorageCall(calls'[i], "storage_deposit") =>
              /\ i - 1 \in Appended
              /\ IsStorageCall(calls'[i - 1], "storage_balance_of")
              /\ ~calls'[i - 1].failed
              /\ HolderOf(calls'[i - 1]) = HolderOf(calls'[i])
              /\ ~registered[HolderOf(calls'[i])]
        /\ IsStorageCall(calls'[i], "storage_balance_of") /\ ~calls'[i].failed
           /\ ~registered[HolderOf(calls'[i])] =>
              /\ i + 1 \in Appended
              /\ IsStorageCall(calls'[i + 1], "storage_deposit")
\* no operation fails with the chain's answer that the storage is registered
AlreadyRegisteredIsSuccess ==
    /\ \A i \in Raises : calls[i].exc # AlreadyRegistered
    /\ pc = "done" /\ Failed => FailureReason # AlreadyRegistered

\* C23: register_token_storage is a check before act: it submits
\* storage_deposit if and only if the storage_balance_of view returned no
\* balance, so for a storage that is registered no call submits a
\* storage_deposit; and an answer of the chain saying the storage is already
\* registered is treated as success and fails no operation.
C23_IdempotentRegistration ==
    [][CheckBeforeAct]_vars /\ []AlreadyRegisteredIsSuccess

\* ------------------------------------------------- two requests, one module
\* Two requests of the service, each with the credentials of its user.  Each
\* calls initialize_agent(account_data), which assigns the module's global
\* ACCOUNT when AIAgent(...) returns and raises when it raises, and then the
\* deposit_near and swap_tokens tools, which read ACCOUNT when they run.  The
\* steps of the two requests interleave.  Here attempt, entry, args, pc,
\* request, quote, calls and outcome hold one value for each request:
\* attempt[r] counts the tool calls of r, request[r] holds the arguments of
\* its tool call, calls[r] records the account each call ran with, quote[r] is
\* the quote it signed last and outcome[r] what its last tool call returned.
Requests == {1, 2}

\* What a caller hands to initialize_agent as account_data: the plain dict of
\* account_id and private_key that the chat controller builds ("dict"), or a
\* dict of the same keys that is also an os.PathLike naming an account file
\* with these credentials ("path").  AIAgent.__init__ takes its first argument
\* for the path of the account file.
CredentialForms == {"dict", "path"}
account_data(r, form) ==
    [account_id |-> IF r = 1 THEN Account ELSE Destination, form |-> form]
SessionAccounts == {account_data(r, "dict").account_id : r \in Requests}

\* account(account_file): the account of the file's account_id
account(account_file) == account_file.account_id

SessionInit ==
    /\ ACCOUNT = NoneVal
    /\ registered = [own |-> [a \in SessionAccounts |-> [t \in AssetSymbols |-> FALSE]],
                     intents |-> FALSE]
    /\ now = 0
    /\ draws = 0
    /\ published = << >>
    /\ attempt = [r \in Requests |-> 0]
    /\ entry = [r \in Requests |-> NoneVal]
    /\ args \in {[r \in Requests |-> account_data(r, form[r])] :
                    form \in [Requests -> CredentialForms]}
    /\ pc = [r \in Requests |-> "new"]
    /\ account_state = Null
    /\ request = [r \in Requests |-> Null]
    /\ options = << >>
    /\ best_option = Null
    /\ quote = [r \in Requests |-> Null]
    /\ calls = [r \in Requests |-> << >>]
    /\ outcome = [r \in Requests |-> Null]
    /\ arith = Arith

\* initialize_agent raises again what the constructor raised: the request
\* ends and ACCOUNT keeps its value
InitializeRaises(r, exc) ==
    /\ pc' = [pc EXCEPT ![r] = "done"]
    /\ outcome' = [outcome EXCEPT ![r] = [kind |-> "raise", value |-> exc]]
    /\ UNCHANGED ACCOUNT

\* initialize_agent(account_data) up to the constructor's query of the
\* account's state: os.path.exists(account_file) raises TypeError for a plain
\* dict; for a path the file is there or FileNotFoundError is raised
AgentInit(r) ==
    /\ pc[r] = "new"
    /\ IF args[r].form = "dict"
       THEN InitializeRaises(r, "TypeError")
       ELSE \E exists \in BOOLEAN :
               IF exists
               THEN /\ pc' = [pc EXCEPT ![r] = "init_state"]
                    /\ UNCHANGED <<outcome, ACCOUNT>>
               ELSE InitializeRaises(r, "FileNotFoundError")
    /\ UNCHANGED <<arith, registered, now, draws, published, attempt, entry, args, calls>>
    /\ UNCHANGED locals

\* AIAgent.__init__: the account's state arrives and the minimum balance of
\* 0.1 NEAR is checked; then add_public_key is sent to intents.near
AgentInitState(r) ==
    /\ pc[r] = "init_state"
    /\ \E answer \in StateAnswers :
          IF answer.kind = "raise"
          THEN InitializeRaises(r, "ChainError")
          ELSE IF answer.kind = "none"
          THEN InitializeRaises(r, "ValueError: Account not found or not accessible")
          ELSE IF arith.low[answer.state.amount]
          THEN InitializeRaises(r, "ValueError: Insufficient balance")
          ELSE /\ pc' = [pc EXCEPT ![r] = "init_key"]
               /\ UNCHANGED <<outcome, ACCOUNT>>
    /\ UNCHANGED <<arith, registered, now, draws, published, attempt, entry, args, calls>>
    /\ UNCHANGED locals

\* AIAgent.__init__: register_intent_public_key returns, or raises; an
\* exception saying "already registered" is logged and the constructor goes
\* on.  The constructor returns and initialize_agent assigns ACCOUNT.
AgentInitKey(r) ==
    /\ pc[r] = "init_key"
    /\ \E chain \in {"ok", "raises", "already_registered"} :
          IF chain = "raises"
          THEN InitializeRaises(r, "ChainError")
          ELSE /\ ACCOUNT' = account(args[r])
               /\ pc' = [pc EXCEPT ![r] = "ready"]
               /\ UNCHANGED outcome
    /\ UNCHANGED <<arith, registered, now, draws, published, attempt, entry, args, calls>>
    /\ UNCHANGED locals

\* initialize_agent(account_data): ACCOUNT = AIAgent(account_data, on_sign),
\* or the exception of the constructor, raised again
InitializeAgent(r) ==
    \/ AgentInit(r)
    \/ AgentInitState(r)
    \/ AgentInitKey(r)

\* A tool call runs in steps: a step ends where the code waits for the chain
\* or the solver bus, and the steps of the two requests interleave there.
\* request[r] is the frame of the tool call of r: the agent the method was
\* called on (self), the arguments, the exception line 89 raised and the best
\* option of intent_swap.  registered.own[a][t] tells whether account a has
\* storage on the contract of token t, registered.intents whether intents.near
\* has storage on wrap.near.

\* (the bus answers a quote request with at most one option)
SessionQuoteAnswers(tag) ==
    BusFailures \cup {[kind |-> "json", body |-> BusError]}
    \cup {[kind |-> "json", body |-> [result |-> l]] : l \in {o \in OptionLists(tag) : Len(o) <= 1}}

\* the tool calls the two requests have made between them
ToolCalls == attempt[1] + attempt[2]

\* the storage registrations that the calls of account_id read and write
StorageOf(account_id) ==
    [t \in StorageHolders |-> IF t = IntentsContract THEN registered.intents
                              ELSE registered.own[account_id][t]]

\* the chain's registrations after a call of account_id left `reg`
Stored(account_id, reg) ==
    [own |-> [registered.own EXCEPT ![account_id] = [t \in AssetSymbols |-> reg[t]]],
     intents |-> reg[IntentsContract]]

\* what the chain does with the storage_balance_of view, and with the
\* storage_deposit call of an account that the view found unregistered
ViewBehaviours == {"ok", "view_raises"}
PayBehaviours == {"ok", "deposit_raises", "already_registered"}

\* NEARAccount.register_token_storage from the answer of storage_balance_of
\* on: the exception raised (NoneVal if none) and whether storage_deposit is
\* sent; holder is the account or contract whose storage it is
storage_balance_of(token, holder, reg, chain) ==
    IF token \notin DOMAIN ASSET_MAP
    THEN [exc |-> "KeyError", pays |-> FALSE]
    ELSE IF chain = "view_raises"
    THEN [exc |-> "ChainError", pays |-> FALSE]
    ELSE [exc |-> NoneVal, pays |-> ~reg[holder]]

\* NEARAccount.register_token_storage from the answer of storage_deposit on:
\* the exception raised (NoneVal if none) and the chain's registrations
storage_deposit(holder, reg, chain) ==
    IF chain = "deposit_raises"
    THEN [exc |-> "ChainError", registered |-> reg]
    ELSE IF chain = "already_registered"
    THEN [exc |-> AlreadyRegistered, registered |-> [reg EXCEPT ![holder] = TRUE]]
    ELSE [exc |-> NoneVal, registered |-> [reg EXCEPT ![holder] = TRUE]]

Frame(self, amount, target_token) ==
    [self |-> self, amount |-> amount, target_token |-> target_token, exc |-> NoneVal,
     best |-> Null]

\* the tool call of r goes on at `next`
SessionGoto(r, next) ==
    /\ pc' = [pc EXCEPT ![r] = next]
    /\ UNCHANGED outcome

\* the tool of r returns: deposit_near and swap_tokens return a dict, also
\* for an exception
SessionReturn(r, result) ==
    /\ pc' = [pc EXCEPT ![r] = "ready"]
    /\ outcome' = [outcome EXCEPT ![r] = result]

SessionError(r, exc) == SessionReturn(r, [status |-> "error", message |-> exc])

\* the deposit_near tool called for request r: ACCOUNT.deposit_near(amount) is
\* called on the agent that ACCOUNT holds at the call, and runs up to its
\* query of the account's state
SessionDepositCall(r) ==
    /\ pc[r] = "ready"
    /\ ToolCalls < MaxAttempts
    /\ attempt' = [attempt EXCEPT ![r] = @ + 1]
    /\ entry' = [entry EXCEPT ![r] = "deposit_near"]
    /\ calls' = [calls EXCEPT ![r] = Append(@, [op |-> "deposit_near", account |-> ACCOUNT])]
    /\ \E amount \in AmountArgs :
          /\ request' = [request EXCEPT ![r] = Frame(ACCOUNT, amount, "NEAR")]
          /\ pc' = [pc EXCEPT ![r] = IF ACCOUNT = NoneVal \/ cmp_of[amount, Zero] <= 0
                                     THEN "ready" ELSE "deposit_check"]
          /\ outcome' = [outcome EXCEPT ![r] =
                            IF ACCOUNT = NoneVal
                            THEN [status |-> "error", message |-> NotInitialized]
                            ELSE IF cmp_of[amount, Zero] <= 0
                            THEN [status |-> "error",
                                  message |-> "ValueError: Deposit amount must be greater than 0"]
                            ELSE Null]
    /\ UNCHANGED <<world, args>>
    /\ UNCHANGED <<account_state, options, best_option, quote>>

\* AIAgent.deposit_near: the account's state arrives, the balance is checked
\* and register_token_storage(self.account, "NEAR", other_account="intents.near")
\* sends its storage_balance_of view
SessionDepositCheck(r) ==
    /\ pc[r] = "deposit_check"
    /\ \E answer \in StateAnswers :
          IF answer.kind = "raise"
          THEN SessionError(r, "ChainError")
          ELSE IF answer.kind = "none"
          THEN SessionError(r, "ValueError: Account not found or not accessible")
          ELSE IF cmp_of[balance_near[answer.state.amount], request[r].amount] < 0
          THEN SessionError(r, "ValueError: Insufficient balance")
          ELSE SessionGoto(r, "deposit_register")
    /\ UNCHANGED <<world, locals, attempt, entry, args, calls>>

\* register_token_storage of AIAgent.deposit_near: the answer of the view
\* arrives; for a storage without balance storage_deposit is sent, else
\* intent_deposit sends near_deposit
SessionDepositRegister(r) ==
    /\ pc[r] = "deposit_register"
    /\ \E chain \in ViewBehaviours :
          LET v == storage_balance_of("NEAR", IntentsContract, StorageOf(request[r].self), chain)
          IN IF v.exc # NoneVal
             THEN SessionError(r, v.exc)
             ELSE SessionGoto(r, IF v.pays THEN "deposit_pay" ELSE "deposit_wrap")
    /\ UNCHANGED <<world, locals, attempt, entry, args, calls>>

\* register_token_storage of AIAgent.deposit_near: the answer of
\* storage_deposit arrives; an exception saying "already registered" is
\* logged and the deposit goes on: intent_deposit sends near_deposit
SessionDepositPay(r) ==
    /\ pc[r] = "deposit_pay"
    /\ \E chain \in PayBehaviours :
          LET s == storage_deposit(IntentsContract, StorageOf(request[r].self), chain)
          IN /\ registered' = Stored(request[r].self, s.registered)
             /\ IF s.exc \in {NoneVal, AlreadyRegistered}
                THEN SessionGoto(r, "deposit_wrap")
                ELSE SessionError(r, s.exc)
    /\ UNCHANGED <<arith, ACCOUNT, now, draws, published, attempt, entry, args, calls>>
    /\ UNCHANGED locals

\* intent_deposit: the answer of near_deposit on wrap.near arrives and
\* ft_transfer_call to intents.near is sent
SessionDepositWrap(r) ==
    /\ pc[r] = "deposit_wrap"
    /\ \E chain \in CallBehaviours :
          IF chain = "raises"
          THEN SessionError(r, "ChainError")
          ELSE SessionGoto(r, "deposit_transfer")
    /\ UNCHANGED <<world, locals, attempt, entry, args, calls>>

\* intent_deposit: the answer of ft_transfer_call arrives; deposit_near
\* returns and the tool returns its dict
SessionDepositTransfer(r) ==
    /\ pc[r] = "deposit_transfer"
    /\ \E chain \in CallBehaviours :
          IF chain = "raises"
          THEN SessionError(r, "ChainError")
          ELSE SessionReturn(r, [status |-> "success",
                                 message |-> <<"Deposited", request[r].amount, "NEAR">>])
    /\ UNCHANGED <<world, locals, attempt, entry, args, calls>>

\* the deposit_near tool, from its call to its return
SessionDeposit(r) ==
    \/ SessionDepositCall(r)
    \/ SessionDepositCheck(r)
    \/ SessionDepositRegister(r)
    \/ SessionDepositPay(r)
    \/ SessionDepositWrap(r)
    \/ SessionDepositTransfer(r)

\* the swap_tokens tool called for request r, first statement:
\* register_token_storage(ACCOUNT.account, target_token) for the account of
\* the agent ACCOUNT holds at the call, up to its storage_balance_of view.
\* Without an agent ACCOUNT.account raises, for a symbol ASSET_MAP does not
\* hold the lookup does; the tool is then on its way to the except clause.
SessionSwapRegister(r) ==
    /\ pc[r] = "ready"
    /\ ToolCalls < MaxAttempts
    /\ attempt' = [attempt EXCEPT ![r] = @ + 1]
    /\ entry' = [entry EXCEPT ![r] = "swap_tokens"]
    /\ calls' = [calls EXCEPT ![r] =
                    Append(@, [op |-> "register_token_storage", account |-> ACCOUNT])]
    /\ outcome' = [outcome EXCEPT ![r] = Null]
    /\ \E target_token \in TargetTokens, amount \in AmountArgs :
          LET raised == IF ACCOUNT = NoneVal THEN "AttributeError"
                        ELSE IF target_token \notin DOMAIN ASSET_MAP THEN "KeyError"
                        ELSE NoneVal
          IN /\ request' = [request EXCEPT ![r] =
                               [Frame(ACCOUNT, amount, target_token)
                                    EXCEPT !.exc = raised]]
             /\ pc' = [pc EXCEPT ![r] = IF raised = NoneVal THEN "tool_register"
                                        ELSE "register raised"]
    /\ UNCHANGED <<world, args>>
    /\ UNCHANGED <<account_state, options, best_option, quote>>

\* line 89 raised exc: swap_tokens is on its way to the except clause
SessionRegisterRaised(r, exc) ==
    /\ request' = [request EXCEPT ![r].exc = exc]
    /\ SessionGoto(r, "register raised")

\* an exception inside swap_near_to_token: the tool returns the error dict
SessionSwapRaised(r, exc) ==
    /\ SessionError(r, exc)
    /\ UNCHANGED request

\* register_token_storage raised exc at `at`: inside line 89 of swap_tokens or
\* inside intent_swap
SessionStorageRaised(r, at, exc) ==
    IF at \in {"tool_register", "tool_pay"}
    THEN SessionRegisterRaised(r, exc)
    ELSE SessionSwapRaised(r, exc)

\* an answer of the chain to register_token_storage(token) of the account of
\* self arrives at `at`: that of the view, after which storage_deposit is
\* sent (the call goes on at `pay`) or the storage has a balance (at `next`)
SessionStorageView(r, at, token, pay, next) ==
    /\ pc[r] = at
    /\ \E chain \in ViewBehaviours :
          LET v == storage_balance_of(token, token, StorageOf(request[r].self), chain)
          IN IF v.exc # NoneVal
             THEN SessionStorageRaised(r, at, v.exc)
             ELSE SessionGoto(r, IF v.pays THEN pay ELSE next) /\ UNCHANGED request
    /\ UNCHANGED <<world, attempt, entry, args, calls>>
    /\ UNCHANGED <<account_state, options, best_option, quote>>

\* the answer of storage_deposit arrives at `at`
SessionStoragePay(r, at, token, next) ==
    /\ pc[r] = at
    /\ \E chain \in PayBehaviours :
          LET s == storage_deposit(token, StorageOf(request[r].self), chain)
          IN /\ registered' = Stored(request[r].self, s.registered)
             /\ IF s.exc # NoneVal
                THEN SessionStorageRaised(r, at, s.exc)
                ELSE SessionGoto(r, next) /\ UNCHANGED request
    /\ UNCHANGED <<arith, ACCOUNT, now, draws, published, attempt, entry, args, calls>>
    /\ UNCHANGED <<account_state, options, best_option, quote>>

\* swap_tokens, first statement: the answer of the view arrives
SessionSwapRegisterView(r) ==
    SessionStorageView(r, "tool_register", request[r].target_token, "tool_pay", "swap")

\* swap_tokens, first statement: the answer of storage_deposit arrives
SessionSwapRegisterPay(r) ==
    SessionStoragePay(r, "tool_pay", request[r].target_token, "swap")

\* swap_tokens after a register_token_storage that raised: the except clause
\* returns the error dict
SessionSwapFailed(r) ==
    /\ pc[r] = "register raised"
    /\ SessionError(r, request[r].exc)
    /\ UNCHANGED <<world, locals, attempt, entry, args, calls>>

\* swap_tokens, second statement: ACCOUNT.swap_near_to_token(target_token,
\* amount) is called on the agent that ACCOUNT holds now and runs up to its
\* query of the account's state
SessionSwapCall(r) ==
    /\ pc[r] = "swap"
    /\ calls' = [calls EXCEPT ![r] =
                    Append(@, [op |-> "swap_near_to_token", account |-> ACCOUNT])]
    /\ request' = [request EXCEPT ![r].self = ACCOUNT]
    /\ IF cmp_of[request[r].amount, Zero] <= 0
       THEN SessionError(r, "ValueError: Swap amount must be greater than 0")
       ELSE IF request[r].target_token \notin DOMAIN ASSET_MAP
       THEN SessionError(r, "ValueError: Unsupported target token")
       ELSE SessionGoto(r, "agent_check")
    /\ UNCHANGED <<world, attempt, entry, args>>
    /\ UNCHANGED <<account_state, options, best_option, quote>>

\* swap_near_to_token: the account's state arrives, the balance is checked
\* and the quote request is sent
SessionAgentCheck(r) ==
    /\ pc[r] = "agent_check"
    /\ \E answer \in StateAnswers :
          IF answer.kind = "raise"
          THEN SessionError(r, "ChainError")
          ELSE IF answer.kind = "none"
          THEN SessionError(r, "ValueError: Account not found or not accessible")
          ELSE IF cmp_of[balance_near[answer.state.amount], request[r].amount] < 0
          THEN SessionError(r, "ValueError: Insufficient balance")
          ELSE SessionGoto(r, "agent_fetch")
    /\ UNCHANGED <<world, locals, attempt, entry, args, calls>>

\* the quote request of the tool call of r for its amount and target token
SessionRequest(r) ==
    set_asset_out(set_asset_in(IntentRequest, "NEAR", request[r].amount),
                  request[r].target_token, << >>)

\* swap_near_to_token: the answer of fetch_options arrives, whose options it
\* checks and logs; intent_swap sends the view of its first registration
SessionAgentFetch(r) ==
    /\ pc[r] = "agent_fetch"
    /\ \E answer \in SessionQuoteAnswers(<<r, attempt[r], 1>>) :
          LET f == fetch_options(SessionRequest(r), answer, now)
          IN IF f.exc # NoneVal
             THEN SessionError(r, f.exc)
             ELSE IF f.options = << >>
             THEN SessionError(r, "ValueError: No swap options available")
             ELSE SessionGoto(r, "swap_register_in")
    /\ UNCHANGED <<world, locals, attempt, entry, args, calls>>

\* intent_swap: register_token_storage(account_obj, token_in), the answer of
\* the view and the answer of storage_deposit
SessionSwapRegisterIn(r) ==
    SessionStorageView(r, "swap_register_in", "NEAR", "swap_pay_in", "swap_register_out")
SessionSwapPayIn(r) ==
    SessionStoragePay(r, "swap_pay_in", "NEAR", "swap_register_out")

\* intent_swap: register_token_storage(account_obj, token_out), the answer of
\* the view and the answer of storage_deposit; then the quote request is sent
SessionSwapRegisterOut(r) ==
    SessionStorageView(r, "swap_register_out", request[r].target_token, "swap_pay_out",
                       "swap_fetch")
SessionSwapPayOut(r) ==
    SessionStoragePay(r, "swap_pay_out", request[r].target_token, "swap_fetch")

\* intent_swap: the answer of fetch_options arrives, select_best_option
SessionSwapFetch(r) ==
    /\ pc[r] = "swap_fetch"
    /\ \E answer \in SessionQuoteAnswers(<<r, attempt[r], 2>>) :
          LET f == fetch_options(SessionRequest(r), answer, now)
              best == select_best_option(f.options)
          IN IF f.exc # NoneVal
             THEN SessionError(r, f.exc) /\ UNCHANGED request
             ELSE IF best = Null
             THEN /\ SessionError(r, "ValueError: No valid swap options available from solver bus")
                  /\ UNCHANGED request
             ELSE /\ SessionGoto(r, "swap_sign")
                  /\ request' = [request EXCEPT ![r].best = best]
    /\ UNCHANGED <<world, attempt, entry, args, calls>>
    /\ UNCHANGED <<account_state, options, best_option, quote>>

\* intent_swap: create_token_diff_quote draws the nonce and signs with the
\* account of self
SessionSwapSign(r) ==
    /\ pc[r] = "swap_sign"
    /\ draws' = draws + 1
    /\ quote' = [quote EXCEPT ![r] =
                    create_token_diff_quote(request[r].self, "NEAR", request[r].amount,
                                            request[r].target_token, request[r].best.amount_out,
                                            nonce_of_draw(draws + 1), now)]
    /\ SessionGoto(r, "swap_publish")
    /\ UNCHANGED <<arith, ACCOUNT, registered, now, published, attempt, entry, args, calls>>
    /\ UNCHANGED <<account_state, request, options, best_option>>

\* intent_swap: publish_intent of the signed intent; its response is what
\* swap_near_to_token returns and the tool wraps
SessionSwapPublish(r) ==
    /\ pc[r] = "swap_publish"
    /\ published' = Append(published, [attempt |-> <<r, attempt[r]>>,
                                       nonce |-> quote[r].payload.obj.nonce])
    /\ \E answer \in PublishAnswers :
          LET p == publish_intent(PublishIntent(quote[r], <<request[r].best.quote_hash>>),
                                  answer, now)
          IN IF p.exc # NoneVal
             THEN SessionError(r, p.exc)
             ELSE SessionReturn(r, [status |-> "success", result |-> p.response])
    /\ UNCHANGED <<arith, ACCOUNT, registered, now, draws, attempt, entry, args, calls>>
    /\ UNCHANGED locals

\* swap_near_to_token, from its call to the return of the tool
SessionSwapRun(r) ==
    \/ SessionSwapCall(r)
    \/ SessionAgentCheck(r)
    \/ SessionAgentFetch(r)
    \/ SessionSwapRegisterIn(r)
    \/ SessionSwapPayIn(r)
    \/ SessionSwapRegisterOut(r)
    \/ SessionSwapPayOut(r)
    \/ SessionSwapFetch(r)
    \/ SessionSwapSign(r)
    \/ SessionSwapPublish(r)

\* swap_tokens from its first wait on
SessionSwap(r) ==
    \/ SessionSwapRegisterView(r)
    \/ SessionSwapRegisterPay(r)
    \/ SessionSwapRun(r)
    \/ SessionSwapFailed(r)

SessionNext ==
    \E r \in Requests :
        \/ InitializeAgent(r)
        \/ SessionDeposit(r)
        \/ SessionSwapRegister(r)
        \/ SessionSwap(r)

SessionSpec == SessionInit /\ [][SessionNext]_vars

ToolEntries == {"swap_tokens", "deposit_near"}
\* a step of the attempt failed: an exception was raised, a chain call other
\* than the storage_deposit of a storage already registered failed, or the
\* solver bus answered the publish with an error
StepFailed ==
    \/ Raises # {}
    \/ \E i \in DOMAIN calls :
          /\ "failed" \in DOMAIN calls[i]
          /\ calls[i].failed
          /\ ~(calls[i].method = "storage_deposit" /\ registered[HolderOf(calls[i])])
    \/ /\ entry = "swap_tokens"
       /\ outcome.value.status = "success"
       /\ "error" \in DOMAIN outcome.value.result

\* C25: the deposit_near and swap_tokens tools let no exception escape: for
\* every input and every failure of an inner step, also without an agent,
\* they return a dict that is a success payload or an error with the reason
\* of the failure, and they report success only when no step failed.
C25_ToolsReturnResults ==
    entry \in ToolEntries /\ pc = "done" =>
        /\ outcome.kind = "return"
        /\ outcome.value.status \in {"success", "error"}
        /\ outcome.value.status = "error" =>
              /\ DOMAIN outcome.value = {"status", "message"}
              /\ outcome.value.message # NoneVal
              /\ ACCOUNT = NoneVal \/ Raises # {}
        /\ outcome.value.status = "success" => ~StepFailed


\* ---------------------------------------------------------------- progress
\* A call that has started runs on: the interpreter executes the next
\* statement of the attempt, and every network call of it answers or raises
\* (requests.post has timeout=30; a timeout is a RequestException, and the
\* chain runtime raises its own error).
Step ==
    \/ Return
    \/ ToolRegister
    \/ AgentCheck
    \/ AgentFetch
    \/ SwapRegisterIn
    \/ SwapRegisterOut
    \/ SwapFetch
    \/ SwapSign
    \/ SwapPublish
    \/ IntentWithdraw

LiveSpec == Init /\ [][Next]_vars /\ WF_vars(Step)

\* the attempt succeeded only if every request it sent was answered and no
\* chain call failed
AllAnswered ==
    /\ \A p \in QuotePosts : calls[p + 1].op = "options"
    /\ \A p \in PublishPosts : Response # Null
    /\ \A i \in StorageCalls : ~calls[i].failed
    /\ \A i \in DOMAIN calls : calls[i].op = "view_account" => ~calls[i].failed

\* C26: every swap attempt that has started ends, in success or in failure,
\* given that every network call answers or times out; and a call that timed
\* out ends the attempt in a failure that carries the error of the call.
C26_AttemptEnds ==
    /\ (InSwap /\ pc # "done") ~> (pc = "done")
    /\ [](InSwap /\ pc = "done" =>
            /\ Failed \/ Succeeded
            /\ Succeeded => AllAnswered
            /\ \A i \in Raises :
                  /\ i = Len(calls)
                  /\ Failed
                  /\ FailureReason = calls[i].exc)

\* a swap attempt ended in failure because the publish POST got no answer
C26_Witness ==
    /\ InSwap
    /\ pc = "done"
    /\ PublishPosts # {}
    /\ Failed
    /\ FailureReason = "RequestException"


\* ------------------------------------------------------ before the publish
\* the function calls the attempt has submitted to the chain
FunctionCalls == {i \in DOMAIN calls : calls[i].op = "function_call"}
\* a POST carries signed data
CarriesSignedData(p) == "signed_data" \in DOMAIN IntentAt(p)

\* C27 as the spec states it: a swap attempt that has not published has
\* submitted no function call to the chain and no signed data to the bus.
C27_NothingBeforePublish ==
    InSwap /\ PublishPosts = {} =>
        /\ FunctionCalls = {}
        /\ \A p \in Posts : ~CarriesSignedData(p)

\* C27, amended: a swap attempt that has not published has submitted no
\* function call to the chain other than the storage_deposit of the storage
\* registration of its two tokens, and no signed data to the solver bus: its
\* POSTs are quote requests, and nothing of it is among the published intents.
C27_OnlyStorageBeforePublish ==
    InSwap /\ PublishPosts = {} =>
        /\ \A i \in FunctionCalls :
              /\ calls[i].method = "storage_deposit"
              /\ calls[i].contract \in {ASSET_MAP[t].token_id :
                                           t \in {args.token_in, args.token_out}
                                                    \cap DOMAIN ASSET_MAP}
        /\ \A p \in Posts : calls[p].method = "quote" /\ ~CarriesSignedData(p)
        /\ \A i \in DOMAIN published : published[i].attempt # attempt

\* a swap attempt failed after its quote request, with nothing published and
\* a storage_deposit submitted
C27_Witness ==
    /\ InSwap
    /\ Failed
    /\ PublishPosts = {}
    /\ QuotePosts # {}
    /\ \E i \in FunctionCalls : ~calls[i].failed


\* --------------------------------------------------- the order of a deposit
NearDeposits == {i \in FunctionCalls : calls[i].method = "near_deposit"}
Transfers == {i \in FunctionCalls : calls[i].method = "ft_transfer_call"}
StorageViews == {i \in DOMAIN calls : calls[i].op = "view_function"
                                      /\ calls[i].method = "storage_balance_of"}

\* C28: AIAgent.deposit_near submits no function call when amount <= 0 or
\* when the balance queried is below amount (yoctoNEAR against NEAR, compared
\* exactly); otherwise it makes, in
\* this order, the storage registration of intents.near on wrap.near,
\* near_deposit on wrap.near with the base-unit amount attached, and
\* ft_transfer_call to intents.near of the same base-unit amount; and
\* ft_transfer_call is submitted only after the near_deposit of the same
\* deposit went through.
C28_DepositOrder ==
    entry \in DepositEntries =>
        /\ cmp_of[args.amount_in, Zero] <= 0 => FunctionCalls = {}
        /\ (account_state # Null /\ arith.below[account_state.amount, args.amount_in])
           => FunctionCalls = {}
        /\ FunctionCalls # {} \/ StorageViews # {} => PassedBalanceChecks # {}
        /\ Cardinality(NearDeposits) <= 1
        /\ Cardinality(Transfers) <= 1
        /\ \A i \in NearDeposits :
              /\ calls[i].contract = "wrap.near"
              /\ calls[i].deposit = to_decimals_of[args.amount_in, ASSET_MAP["NEAR"].decimals]
              /\ \E v \in StorageViews :
                    /\ v < i
                    /\ ~calls[v].failed
                    /\ calls[v].contract = "wrap.near"
                    /\ HolderOf(calls[v]) = IntentsContract
              /\ \A k \in FunctionCalls : calls[k].method = "storage_deposit" =>
                    k < i /\ HolderOf(calls[k]) = IntentsContract
        /\ \A j \in Transfers :
              /\ calls[j].contract = "wrap.near"
              /\ calls[j].receiver_id = IntentsContract
              /\ \E i \in NearDeposits :
                    /\ i < j
                    /\ ~calls[i].failed
                    /\ calls[j].amount = calls[i].deposit
        /\ Succeeded => \E j \in Transfers : ~calls[j].failed

\* ------------------------------------------------------- the rate limiter
\* InMemoryRateLimiter behind RateLimitMiddleware.dispatch.  Two dispatch
\* coroutines run at a time; each awaits is_allowed, whose body runs under
\* self.lock and has no await in it, so the body is one step and the lock is
\* free between steps.  Here request is self.requests (key -> list of request
\* times), now is time.time() in ticks, args the limit and window of the run,
\* entry[c] the key coroutine c asks for, pc[c] where c is, and calls logs
\* every is_allowed call: its key, its time, what it returned (or raised) and
\* the status of the response.
Callers == {1, 2}
RateKeys == {"10.0.0.1", "10.0.0.2"}

\* the times of history younger than window at time t
Recent(history, t, window) == SelectSeq(history, LAMBDA req_time : t - req_time < window)

\* is_allowed that records the request time before it looks at the count
is_allowed_recording_first(all, key, limit, window, t) ==
    LET cleaned == Recent(IF key \in DOMAIN all THEN all[key] ELSE << >>, t, window)
        recorded == Append(cleaned, t)
        current_count == Len(cleaned)
        kept == [k \in DOMAIN all \cup {key} |-> IF k = key THEN recorded ELSE all[k]]
    IN IF current_count >= limit
       THEN [exc |-> NoneVal, allowed |-> FALSE,
             stats |-> [limit |-> limit, remaining |-> 0, reset |-> recorded[1] + window,
                        window |-> window],
             requests |-> kept]
       ELSE [exc |-> NoneVal, allowed |-> TRUE,
             stats |-> [limit |-> limit, remaining |-> limit - current_count - 1,
                        reset |-> t + window, window |-> window],
             requests |-> kept]

\* is_allowed(key, limit, window) at time t on self.requests = all: what it
\* returns (exc is the IndexError of the empty history that a limit of 0 or
\* less indexes) and self.requests afterwards
is_allowed(all, key, limit, window, t) ==
    LET cleaned == Recent(IF key \in DOMAIN all THEN all[key] ELSE << >>, t, window)
        current_count == Len(cleaned)
        kept == [k \in DOMAIN all \cup {key} |-> IF k = key THEN cleaned ELSE all[k]]
    IN IF current_count >= limit
       THEN IF cleaned = << >>
            THEN [exc |-> "IndexError", allowed |-> FALSE, stats |-> Null, requests |-> kept]
            ELSE [exc |-> NoneVal, allowed |-> FALSE,
                  stats |-> [limit |-> limit, remaining |-> 0, reset |-> cleaned[1] + window,
                             window |-> window],
                  requests |-> kept]
       ELSE [exc |-> NoneVal, allowed |-> TRUE,
             stats |-> [limit |-> limit, remaining |-> limit - current_count - 1,
                        reset |-> t + window, window |-> window],
             requests |-> [kept EXCEPT ![key] = Append(cleaned, t)]]

RateInit ==
    /\ ACCOUNT = Account
    /\ registered = [t \in StorageHolders |-> FALSE]
    /\ now = 0
    /\ draws = 0
    /\ published = << >>
    /\ attempt = 0
    /\ entry = [c \in Callers |-> NoneVal]
    /\ args \in {[limit |-> l, window |-> w] : l \in 0..MaxLimit, w \in 1..MaxWindow}
    /\ pc = [c \in Callers |-> "idle"]
    /\ account_state = Null
    /\ request = << >>
    /\ options = << >>
    /\ best_option = Null
    /\ quote = Null
    /\ calls = << >>
    /\ outcome = Null
    /\ arith = Arith

\* a request for key arrives: dispatch awaits is_allowed
RateDispatch(c) ==
    /\ pc[c] = "idle"
    /\ Len(calls) + Cardinality({d \in Callers : pc[d] = "waiting"}) < MaxCalls
    /\ \E key \in RateKeys : entry' = [entry EXCEPT ![c] = key]
    /\ pc' = [pc EXCEPT ![c] = "waiting"]
    /\ UNCHANGED <<world, locals, attempt, args, calls, outcome>>

\* is_allowed runs; dispatch answers 429 when it is denied and forwards the
\* request otherwise
RateIsAllowed(c) ==
    /\ pc[c] = "waiting"
    /\ LET r == is_allowed(request, entry[c], args.limit, args.window, now)
       IN /\ request' = r.requests
          /\ calls' = Append(calls,
                             [op |-> "is_allowed", key |-> entry[c], at |-> now,
                              exc |-> r.exc, allowed |-> r.allowed, stats |-> r.stats,
                              status |-> IF r.exc # NoneVal THEN 500
                                         ELSE IF r.allowed THEN 200 ELSE 429])
    /\ pc' = [pc EXCEPT ![c] = "idle"]
    /\ entry' = [entry EXCEPT ![c] = NoneVal]
    /\ UNCHANGED <<world, attempt, args, account_state, options, best_option, quote, outcome>>

\* time passes
RateTick ==
    /\ now < MaxClock
    /\ now' = now + 1
    /\ UNCHANGED <<arith, ACCOUNT, registered, draws, published, attempt, entry, args, pc,
                   calls, outcome>>
    /\ UNCHANGED locals

RateNext ==
    \/ \E c \in Callers : RateDispatch(c) \/ RateIsAllowed(c)
    \/ RateTick

RateSpec == RateInit /\ [][RateNext]_vars


\* the is_allowed calls logged so far that were allowed for key
AllowedCalls(key) == {i \in DOMAIN calls : calls[i].key = key /\ calls[i].allowed}

\* the recorded times of key younger than the window now
YoungTimes(key) == IF key \in DOMAIN request THEN Recent(request[key], now, args.window) ELSE << >>

\* a step in which is_allowed answered without allowing
DeniedStep == /\ calls' # calls
              /\ ~ calls'[Len(calls')].allowed

\* the history of every key is no longer after the step than before it
NothingAdded ==
    \A key \in RateKeys :
        (key \in DOMAIN request') =>
            Len(request'[key]) <= (IF key \in DOMAIN request THEN Len(request[key]) ELSE 0)

\* C29: under any interleaving of is_allowed calls with a fixed limit and
\* window, no key ever has more than limit recorded times younger than the
\* window, at most limit calls are allowed for a key in any window, a call
\* that is not allowed adds nothing to the history, and the remaining count
\* reported is never negative.
C29_RateLimitHolds ==
    /\ [](\A key \in RateKeys :
            /\ Len(YoungTimes(key)) <= args.limit
            /\ \A i \in AllowedCalls(key) :
                   Cardinality({j \in AllowedCalls(key) :
                                    j <= i /\ calls[i].at - calls[j].at < args.window})
                       <= args.limit)
    /\ [](\A i \in DOMAIN calls : calls[i].exc = NoneVal => calls[i].stats.remaining >= 0)
    /\ [][DeniedStep => NothingAdded]_vars

\* two callers waited at once; a key filled its limit of 2, a third call for it
\* was denied with 429, and after the window had passed a call was allowed again
C29_Witness ==
    /\ args.limit = 2
    /\ Len(calls) = 4
    /\ \A i \in 1..4 : calls[i].key = "10.0.0.1"
    /\ calls[1].allowed /\ calls[2].allowed
    /\ calls[3].status = 429 /\ calls[3].stats.remaining = 0
    /\ calls[4].allowed /\ calls[4].at - calls[3].at >= args.window


\* --------------------------------------------------- the security monitor
\* ThreatDetector behind SecurityMonitoringMiddleware.dispatch.  Two dispatch
\* coroutines run at a time; a coroutine is suspended only in call_next, and
\* the unblock task only in asyncio.sleep.  Here now is time.time() in
\* seconds, registered is blocked_ips, options the pending unblock tasks,
\* request is request_history, quote is failed_attempts, account_state is
\* suspicious_patterns, pc[s] and entry[s] are where coroutine s is and the
\* request it serves, draws counts the requests that arrived, calls logs the
\* block_ip calls and outcome is the answer to the last request handled.
Slots == {1, 2}
ClientIps == {"10.0.0.1", "unknown"}
time_window == 300
\* the instants (in seconds) a run looks at: the start, the end of the time
\* window and the end of a block of 30 minutes
Instants == {0, time_window, 1800}

Mozilla == <<"M", "o", "z", "i", "l", "l", "a">>
GoogleBot == <<"G", "o", "o", "g", "l", "e", "B", "o", "t">>
UserAgents == {Mozilla, GoogleBot}
suspicious_agents ==
    {<<"s", "q", "l", "m", "a", "p">>, <<"n", "i", "k", "t", "o">>, <<"n", "m", "a", "p">>,
     <<"s", "c", "a", "n", "n", "e", "r">>, <<"b", "o", "t">>,
     <<"c", "r", "a", "w", "l", "e", "r">>}

\* str.lower() on the letters the user agents are written with
lower(s) ==
    [i \in DOMAIN s |-> IF s[i] = "M" THEN "m"
                        ELSE IF s[i] = "G" THEN "g"
                        ELSE IF s[i] = "B" THEN "b"
                        ELSE s[i]]

\* sub in s, for strings
Contains(sub, s) ==
    \E i \in 0..(Len(s) - Len(sub)) : SubSeq(s, i + 1, i + Len(sub)) = sub

\* the last n entries of a list: requests[-n:]
LastEntries(list, n) ==
    IF Len(list) <= n THEN list ELSE SubSeq(list, Len(list) - n + 1, Len(list))

\* what call_next does with a forwarded request: it returns a response or
\* raises, with or without a status_code on the exception
AppResults ==
    {[kind |-> "return", status |-> 200], [kind |-> "raise", status |-> 401]}

\* the detector's fields as one record
Detector ==
    [history |-> request, failed |-> quote, suspicious |-> account_state,
     blocked |-> registered, timers |-> options, log |-> calls, exc |-> NoneVal]

is_blocked(blocked, client_ip) == client_ip \in blocked

\* block_ip: add the address and start the task that removes it after duration
block_ip(D, client_ip, duration, t) ==
    [D EXCEPT !.blocked = @ \cup {client_ip},
              !.timers = Append(@, [client_ip |-> client_ip, due |-> t + duration]),
              !.log = Append(@, [op |-> "block_ip", client_ip |-> client_ip, at |-> t,
                                 duration |-> duration])]

\* popleft while the oldest entry is older than the cut-off
RECURSIVE popleft_old(_, _)
popleft_old(entries, cutoff_time) ==
    IF entries # << >> /\ entries[1].timestamp < cutoff_time
    THEN popleft_old(Tail(entries), cutoff_time)
    ELSE entries

clean_old_entries(D, client_ip, t) ==
    [D EXCEPT !.history[client_ip] = popleft_old(@, t - time_window),
              !.failed[client_ip] = popleft_old(@, t - time_window)]

\* _trigger_alert: log, count the offence, block for 30 minutes from the
\* third on
trigger_alert(D, client_ip, t) ==
    LET counted == [D EXCEPT !.suspicious[client_ip] = @ + 1]
    IN IF counted.suspicious[client_ip] >= 3
       THEN block_ip(counted, client_ip, 1800, t)
       ELSE counted

AlertIf(cond, D, client_ip, t) == IF cond THEN trigger_alert(D, client_ip, t) ELSE D

analyze_request_patterns(D, client_ip, request_data, t) ==
    LET requests == D.history[client_ip]
        recent_requests == SelectSeq(requests, LAMBDA r : t - r.timestamp < 60)
        last20 == LastEntries(requests, 20)
        unique_paths == {last20[i].path : i \in DOMAIN last20}
        recent_errors == SelectSeq(LastEntries(requests, 10), LAMBDA r : r.status >= 400)
        user_agent == lower(request_data.user_agent)
        rapid == AlertIf(Len(requests) >= 100 /\ Len(recent_requests) >= 50, D, client_ip, t)
        paths == AlertIf(Cardinality(unique_paths) >= 15, rapid, client_ip, t)
        errors == AlertIf(Len(recent_errors) >= 8, paths, client_ip, t)
    IN IF Len(requests) < 2
       THEN D
       ELSE AlertIf(\E agent \in suspicious_agents : Contains(agent, user_agent),
                    errors, client_ip, t)

add_request(D, client_ip, req, response_status, t) ==
    LET cleaned == clean_old_entries(D, client_ip, t)
        request_data == [timestamp |-> t, path |-> req.path, method |-> req.method,
                         status |-> response_status, user_agent |-> req.user_agent]
        added == [cleaned EXCEPT !.history[client_ip] = Append(@, request_data)]
    IN analyze_request_patterns(added, client_ip, request_data, t)

\* _check_brute_force: after the block, log_security_event is given None for
\* the request and raises AttributeError on request.state
check_brute_force(D, client_ip, t) ==
    LET recent_failures == SelectSeq(D.failed[client_ip], LAMBDA a : t - a.timestamp < 600)
    IN IF Len(recent_failures) >= 10
       THEN [block_ip(D, client_ip, 3600, t) EXCEPT !.exc = "AttributeError"]
       ELSE D

add_failed_attempt(D, client_ip, attempt_type, t) ==
    check_brute_force([D EXCEPT !.failed[client_ip] =
                                    Append(@, [timestamp |-> t, type |-> attempt_type])],
                      client_ip, t)

BlockInit ==
    /\ ACCOUNT = Account
    /\ registered = {}
    /\ now = 0
    /\ draws = 0
    /\ published = << >>
    /\ attempt = 0
    /\ entry = [s \in Slots |-> NoneVal]
    /\ args = Null
    /\ pc = [s \in Slots |-> "idle"]
    /\ account_state = [ip \in ClientIps |-> 0]
    /\ request = [ip \in ClientIps |-> << >>]
    /\ options = << >>
    /\ best_option = Null
    /\ quote = [ip \in ClientIps |-> << >>]
    /\ calls = << >>
    /\ outcome = Null
    /\ arith = Arith

\* dispatch up to call_next: a request of a blocked address is answered with
\* HTTPException(403); any other is forwarded
BlockArrive(s) ==
    /\ pc[s] = "idle"
    /\ draws < MaxRequests
    /\ draws' = draws + 1
    /\ \E ip \in ClientIps, ua \in UserAgents :
         IF is_blocked(registered, ip)
         THEN /\ outcome' = [client_ip |-> ip, kind |-> "raise", status |-> 403,
                             forwarded |-> FALSE]
              /\ UNCHANGED <<pc, entry>>
         ELSE /\ outcome' = [client_ip |-> ip, kind |-> "call_next", status |-> 0,
                             forwarded |-> TRUE]
              /\ pc' = [pc EXCEPT ![s] = "forwarded"]
              /\ entry' = [entry EXCEPT ![s] = [client_ip |-> ip, user_agent |-> ua,
                                                path |-> "/chat", method |-> "POST"]]
    /\ UNCHANGED <<arith, ACCOUNT, registered, now, published, attempt, args, calls>>
    /\ UNCHANGED locals

\* dispatch from the return of call_next on: the request is tracked, with its
\* failure when call_next raised 401 or 403, and the response or exception
\* goes on to the client
BlockComplete(s) ==
    /\ pc[s] = "forwarded"
    /\ \E res \in AppResults :
         LET ip == entry[s].client_ip
             tracked == IF ip # "unknown"
                        THEN add_request(Detector, ip, entry[s], res.status, now)
                        ELSE Detector
             D == IF ip # "unknown" /\ res.kind = "raise" /\ res.status \in {401, 403}
                  THEN add_failed_attempt(tracked, ip,
                                          IF res.status = 401 THEN "auth_failure"
                                          ELSE "authz_failure", now)
                  ELSE tracked
         IN /\ request' = D.history
            /\ quote' = D.failed
            /\ account_state' = D.suspicious
            /\ registered' = D.blocked
            /\ options' = D.timers
            /\ calls' = D.log
            /\ outcome' = [client_ip |-> ip,
                           kind |-> IF D.exc # NoneVal THEN "raise" ELSE res.kind,
                           status |-> IF D.exc # NoneVal THEN 500 ELSE res.status,
                           forwarded |-> TRUE]
    /\ pc' = [pc EXCEPT ![s] = "idle"]
    /\ entry' = [entry EXCEPT ![s] = NoneVal]
    /\ UNCHANGED <<arith, ACCOUNT, now, draws, published, attempt, args, best_option>>

\* _unblock_ip_after_delay wakes from its sleep and discards the address
UnblockIpAfterDelay(i) ==
    /\ i \in DOMAIN options
    /\ now >= options[i].due
    /\ registered' = registered \ {options[i].client_ip}
    /\ options' = [j \in 1..(Len(options) - 1) |-> IF j < i THEN options[j] ELSE options[j + 1]]
    /\ UNCHANGED <<arith, ACCOUNT, now, draws, published, attempt, entry, args, pc,
                   account_state, request, best_option, quote, calls, outcome>>

\* time passes, from one of the instants the run looks at to the next
BlockTick ==
    /\ \E t \in Instants : t > now
    /\ now' = CHOOSE t \in Instants : t > now /\ \A u \in Instants : u > now => t <= u
    /\ UNCHANGED <<arith, ACCOUNT, registered, draws, published, attempt, entry, args, pc,
                   calls, outcome>>
    /\ UNCHANGED locals

BlockNext ==
    \/ \E s \in Slots : BlockArrive(s) \/ BlockComplete(s)
    \/ \E i \in 1..(2 * MaxRequests) : UnblockIpAfterDelay(i)
    \/ BlockTick

BlockSpec == BlockInit /\ [][BlockNext]_vars


\* the block_ip calls logged for client_ip
BlockCalls(client_ip) == {i \in DOMAIN calls : calls[i].client_ip = client_ip}

\* client_ip is within the duration of its most recent block_ip call
WithinLastBlock(client_ip) ==
    /\ BlockCalls(client_ip) # {}
    /\ LET last == CHOOSE i \in BlockCalls(client_ip) : \A j \in BlockCalls(client_ip) : j <= i
       IN now < calls[last].at + calls[last].duration

\* a step in which dispatch took up a request of an address that is blocked
BlockedArrival == /\ draws' = draws + 1
                  /\ outcome'.client_ip \in registered

\* C30: an address stays blocked for the whole duration of its most recent
\* block_ip call, also while the unblock task of an earlier block is pending;
\* and a request arriving from a blocked address is answered with 403 and is
\* not forwarded.
C30_BlockLasts ==
    /\ [](\A ip \in ClientIps : WithinLastBlock(ip) => is_blocked(registered, ip))
    /\ [][BlockedArrival => /\ outcome'.status = 403
                            /\ ~ outcome'.forwarded
                            /\ pc' = pc]_vars

\* the part of C30 about requests of a blocked address alone
C30_BlockedGets403 ==
    [][BlockedArrival => /\ outcome'.status = 403
                         /\ ~ outcome'.forwarded
                         /\ pc' = pc]_vars
====
